---------------------------- MODULE Spec2Model ----------------------------
(***************************************************************************)
(* Market-data synchronisation of tahy2201/stock_analyzer:                 *)
(* StockDataCollector.update_tiker_prices (kind Series) and                *)
(* StockDataCollector.update_tiker_info (kind Snapshot) of                 *)
(* src/backend/batch/data_collector.py, with the DatabaseManager calls     *)
(* they make (src/backend/shared/database/database_manager.py).            *)
(*                                                                         *)
(* One behaviour is one call: Init fixes the arguments, the date and the   *)
(* tables, the actions are the steps of the call between its external      *)
(* calls (store read, provider request, the extraction loop of a batch).   *)
(* A symbol is the sequence of its characters; a dict is a function whose  *)
(* DOMAIN is its key set; a date is a day number.                          *)
(***************************************************************************)
EXTENDS Integers, Sequences, FiniteSets, TLC

(* ------------------------------ bounds --------------------------------- *)
\* longest input list
MaxLen == 3
\* batch_size of update_tiker_prices, scaled down from 1000
PriceBatchSize == 2
\* batch_size of update_tiker_info, scaled down from 100
InfoBatchSize == 1
\* the day number datetime.now() gives
BaseDay == 100
\* largest digest value given to the interval computation on its own
MaxHash == 20
\* calls of get_ticker_info_update_interval_days made for one symbol
MaxCalls == 2
\* days that pass between those calls
MaxDays == 1

(* --------------------------- program constants ------------------------- *)
\* max_attempts off by one
max_attempts_plus_one == 3 + 1

max_attempts == 3
retry_delay == 2
price_batch_delay == 2
info_batch_delay == 10
base_days == 14
hash_spread == 7
\* a ticker info dict is kept when it has more than this many entries
min_info_fields == 5

(* ------------------------------ symbols -------------------------------- *)
Symbols == { <<"7">>, <<"7", ".", "T">>, <<"9">> }

EndsWithDotT(symbol) ==
    /\ Len(symbol) >= 2
    /\ SubSeq(symbol, Len(symbol) - 1, Len(symbol)) = <<".", "T">>

format_symbol(symbol) ==
    IF ~EndsWithDotT(symbol) THEN symbol \o <<".", "T">> ELSE symbol

\* int(hashlib.md5(symbol.encode('utf-8')).hexdigest(), 16), tabulated for
\* the symbols of the model. The digests are
\*   md5("7")   = 8f14e45fceea167a5a36dedd4bea2543
\*   md5("7.T") = 1ee5ec18986befe502beb5503822cbe9
\*   md5("9")   = 45c48cce2e2d7fbdea1afc51c7c6ad26
\* and each is given reduced modulo 7 * 2^24, which keeps its residue
\* modulo 7 (5, 6 and 2) within the integers of the checker.
Md5Int(symbol) ==
    CASE symbol = <<"7">> -> 32122179
      [] symbol = <<"7", ".", "T">> -> 102943721
      [] symbol = <<"9">> -> 63352102

(* ------------------------------ helpers -------------------------------- *)
Range(s) == { s[k] : k \in 1..Len(s) }

Min(a, b) == IF a < b THEN a ELSE b

MaxOf(S) == CHOOSE m \in S : \A x \in S : x <= m

EmptyDict == [k \in {} |-> TRUE]

\* d[key] = value
DictSet(d, key, value) ==
    [k \in DOMAIN d \cup {key} |-> IF k = key THEN value ELSE d[k]]

\* dict.fromkeys(keys, value)
fromkeys(keys, value) == [k \in Range(keys) |-> value]

\* d assigned value at the elements of keys that are keys of d already
DictSetAllPresent(d, keys, value) ==
    [k \in DOMAIN d |-> IF k \in Range(keys) THEN value ELSE d[k]]

\* d assigned value at every element of the list keys
DictSetAll(d, keys, value) ==
    [k \in DOMAIN d \cup Range(keys) |->
        IF k \in Range(keys) THEN value ELSE d[k]]

\* d assigned value at the elements of keys that are not yet keys of d
DictSetMissing(d, keys, value) ==
    [k \in DOMAIN d \cup Range(keys) |->
        IF k \in DOMAIN d THEN d[k] ELSE value]

\* a slice one element too long
SliceOverlapping(seq, i, n) == SubSeq(seq, i + 1, Min(i + n + 1, Len(seq)))

\* seq[i : i + n] of Python, i counted from 0
Slice(seq, i, n) == SubSeq(seq, i + 1, Min(i + n, Len(seq)))

\* seq[i:] of Python
SliceFrom(seq, i) == SubSeq(seq, i + 1, Len(seq))

\* a filter that keeps every element
FilterKeepAll(seq, keep) == seq

RECURSIVE Filter(_, _)
\* the elements of seq that are in the set keep, in the order of seq
Filter(seq, keep) ==
    IF seq = <<>> THEN <<>>
    ELSE IF seq[1] \in keep
         THEN <<seq[1]>> \o Filter(Tail(seq), keep)
         ELSE Filter(Tail(seq), keep)

SeqsUpTo(S, n) == UNION { [1..k -> S] : k \in 0..n }

(* ------------------------------- state --------------------------------- *)
VARIABLES
    kind,               \* "prices": update_tiker_prices, "info": update_tiker_info
    symbols,            \* the argument symbols
    force_update,       \* the argument force_update (update_tiker_info)
    today,              \* datetime.now().date()
    stock_prices,       \* table stock_prices: symbol -> set of the dates of its rows
    ticker_info,        \* table ticker_info: symbol -> last_updated, one row a symbol
    pc,                 \* position of the call
    latest_dates,       \* what get_latest_*_dates returned
    symbols_to_update,  \* the due list
    results,            \* the dict results
    i,                  \* the loop variable i, start of the current batch
    attempt,            \* provider calls made for the current batch
    prices_data,        \* what get_stock_prices returned last
    info_data,          \* what get_stock_info returned last
    abort_processing,   \* the flag abort_processing
    ret,                \* the dict returned to the caller
    slept,              \* the time.sleep executed since the last provider call, 0 if none
    requested,          \* history: symbols passed to the provider
    fetched,            \* history: batch starts i for which the provider was called
    answered,           \* history: batch starts i whose fetch gave a non-empty result
    persist_log,        \* history: symbol -> what its last insert_* call returned, if it returned
    stock_prices0,      \* history: stock_prices when the call began
    ticker_info0,       \* history: ticker_info when the call began
    batches,            \* history: the batch_symbols of the loop iterations begun, in order
    hash_value,         \* int(hexdigest, 16) of the symbol whose interval is asked for on its own
    intervals_returned, \* history: what the calls for that symbol returned, in order
    run_no,             \* two calls in succession: which call this is, 0 for a call on its own
    environment,        \* two calls in succession: what the provider holds and what the store does
    store_after_first,  \* two calls in succession: the tables when the first call returned
    provider_calls,     \* history: provider calls made in the run, when they are counted
    job,                \* the batch job of stock_updater.py: its position, results and exit status
    portfolio,          \* one portfolio of the API: capital, positions, transactions, last response
    orm,                \* stock_prices under the SQLAlchemy DatabaseManager and the call in progress
    analysis            \* the AI analysis records and the tasks working on them

vars == << kind, symbols, force_update, today, stock_prices, ticker_info, pc,
           latest_dates, symbols_to_update, results, i, attempt, prices_data,
           info_data, abort_processing, ret, slept, requested, fetched,
           answered, persist_log, stock_prices0, ticker_info0, batches,
           hash_value, intervals_returned, run_no, environment,
           store_after_first, provider_calls, job, portfolio, orm,
           analysis >>

\* the variables of update_tiker_prices and update_tiker_info
collector_vars ==
    << kind, symbols, force_update, today, stock_prices, ticker_info, pc,
       latest_dates, symbols_to_update, results, i, attempt, prices_data,
       info_data, abort_processing, ret, slept, requested, fetched,
       answered, persist_log, stock_prices0, ticker_info0, batches,
       hash_value, intervals_returned, run_no, environment,
       store_after_first, provider_calls >>

\* the variables of the other programs
app_vars == << job, portfolio, orm, analysis >>

\* their values while update_tiker_prices or update_tiker_info is looked at
AppIdle ==
    /\ job = << >>
    /\ portfolio = << >>
    /\ orm = << >>
    /\ analysis = << >>

\* the variables of the calls of the interval computation on its own
jitter_vars == << hash_value, intervals_returned >>

\* the variables of two calls in succession
twice_vars == << run_no, environment, store_after_first >>

\* their values in a call on its own
NoEnvironment ==
    [provider_down |-> FALSE, provider_data |-> << >>,
     store_reads |-> << >>, rejected |-> << >>]

\* the value of provider_calls in a run whose calls are not counted
NotCounted == 0 - 1

\* provider_calls after one more call
OneMoreCall(calls) == IF calls = NotCounted THEN calls ELSE calls + 1

OnItsOwn ==
    /\ provider_calls = NotCounted
    /\ run_no = 0
    /\ environment = NoEnvironment
    /\ store_after_first = << >>

(* ------------------------- jittered interval --------------------------- *)
\* an interval salted with the day of the call
interval_of_hash_salted(h) == base_days + ((h + today) % hash_spread)

\* offset = int(hash_obj.hexdigest(), 16) % 7; return base_days + offset
interval_of_hash(h) == base_days + (h % hash_spread)

get_ticker_info_update_interval_days(symbol) ==
    interval_of_hash(Md5Int(symbol))

(* ----------------------------- exceptions ------------------------------ *)
\* no handler catching anything
CatchesNothing(handler) == FALSE

\* every handler but the one inside the store's read methods
CatchesButRead(handler) == handler # "db_read"

\* every handler but the one around a single symbol's processing
CatchesButSymbol(handler) == handler # "symbol"

\* Every handler of the two functions and of the calls they make is
\* `except Exception`: it catches whatever is raised inside it.
Catches(handler) == TRUE

RECURSIVE CaughtAt(_)
\* the innermost handler of the chain (innermost first) that catches, or "none"
CaughtAt(chain) ==
    IF chain = <<>> THEN "none"
    ELSE IF Catches(chain[1]) THEN chain[1] ELSE CaughtAt(Tail(chain))

\* the handlers around each place an external call can raise
ReadChain == << "db_read", "outer" >>
ProviderChain == << "provider", "batch", "outer" >>
SymbolChain == << "symbol", "batch", "outer" >>
PersistChain == << "db_write", "symbol", "batch", "outer" >>

(* ------------------------------- dates --------------------------------- *)
\* rows a symbol may hold in stock_prices when the call begins: between
\* them the symbols cover no row, a newest row of today, of yesterday, of
\* two days ago and of three days ago
InitialPriceRows(symbol) ==
    CASE symbol = <<"7">> -> { {}, {BaseDay - 2}, {BaseDay} }
      [] symbol = <<"7", ".", "T">> -> { {}, {BaseDay - 3, BaseDay - 1} }
      [] OTHER -> { {BaseDay - 3}, {BaseDay - 2}, {BaseDay - 1} }

\* last_updated a symbol may hold in ticker_info when the call begins
InitialInfoDates(symbol) ==
    { BaseDay - get_ticker_info_update_interval_days(symbol) - 1,
      BaseDay - get_ticker_info_update_interval_days(symbol) }

\* the row dates of a payload that passes the required-columns check
PayloadRows(now) == { {now - 1, now}, {now - 3} }

(* ------------------------------ provider ------------------------------- *)
FormattedSet(batch_symbols) == { format_symbol(s) : s \in Range(batch_symbols) }

\* One symbol's columns in the frame yf.download returns: cols says whether
\* open, high, low, close and volume are all there, rows are the dates of
\* the rows that survive dropna().
PricePayloads(now) ==
    { [cols |-> FALSE, rows |-> {}] }
    \cup { [cols |-> TRUE, rows |-> r] : r \in {{}} \cup PayloadRows(now) }

\* What yf.download can do with a batch: raise, or return a frame holding
\* some of the requested symbols (none: the empty frame).
PriceAnswers(batch_symbols, now) ==
    { [raised |-> TRUE, data |-> EmptyDict] }
    \cup { [raised |-> FALSE, data |-> f] :
             f \in UNION { [D -> PricePayloads(now)] :
                             D \in SUBSET FormattedSet(batch_symbols) } }

\* One symbol's .info dict, as the number of its entries: none, too few, enough.
InfoPayloads == { 0, min_info_fields, min_info_fields + 1 }

\* What yf.Tickers(...).tickers[symbol].info can do for a batch: raise on
\* some symbol, or give a dict for every formatted symbol.
InfoAnswers(batch_symbols) ==
    { [raised |-> TRUE, data |-> EmptyDict] }
    \cup { [raised |-> FALSE, data |-> f] :
             f \in [FormattedSet(batch_symbols) -> InfoPayloads] }

\* get_stock_prices / get_stock_info: the provider's answer, or the empty
\* result when the call raised and the function's own handler caught it
ProviderResult(answer) == IF answer.raised THEN EmptyDict ELSE answer.data

(* ------------------------------- store --------------------------------- *)
\* SELECT symbol, MAX(date) FROM stock_prices WHERE symbol IN (...) GROUP BY
\* symbol; a read that raises leaves the dict as it was built so far: empty
get_latest_price_dates(syms, table, read) ==
    IF read = "ok"
    THEN [s \in { x \in Range(syms) : table[x] # {} } |-> MaxOf(table[s])]
    ELSE EmptyDict

\* SELECT symbol, MAX(last_updated) FROM ticker_info WHERE symbol IN (...)
get_latest_ticker_info_dates(syms, table, read) ==
    IF read = "ok"
    THEN [s \in Range(syms) \cap DOMAIN table |-> table[s]]
    ELSE EmptyDict

\* an insert reporting failure whatever the write did
insert_returns_false(write) == FALSE

\* an insert reporting success whatever the write did
insert_returns_true(write) == TRUE

\* what insert_stock_prices and insert_ticker_info return: True after the
\* commit, False from their handler when the write raised
insert_returns(write) == write = "ok"

\* an insert that deletes without inserting when the rows stored are
\* those of price_data already
insert_stock_prices_dropping(table, symbol, rows) ==
    [table EXCEPT ![symbol] = IF @ = rows THEN {} ELSE rows]

\* an insert that adds the rows of price_data to the rows stored
insert_stock_prices_merging(table, symbol, rows) ==
    [table EXCEPT ![symbol] = @ \cup rows]

\* DELETE FROM stock_prices WHERE symbol = ?, then the rows of price_data
insert_stock_prices(table, symbol, rows) == [table EXCEPT ![symbol] = rows]

\* an insert that leaves the last_updated of a symbol already stored
insert_ticker_info_keeping(table, symbol, now) ==
    IF symbol \in DOMAIN table THEN table ELSE DictSet(table, symbol, now)

\* INSERT OR REPLACE INTO ticker_info ... last_updated = now
insert_ticker_info(table, symbol, now) == DictSet(table, symbol, now)

(* --------------------------- classification ---------------------------- *)
\* PriceIsDue taking a record dated yesterday for old
PriceIsDueInclusive(latest, symbol, now) ==
    \/ symbol \notin DOMAIN latest
    \/ latest[symbol] <= now - 1

\* latest_date is None or latest_date.date() < yesterday
PriceIsDue(latest, symbol, now) ==
    \/ symbol \notin DOMAIN latest
    \/ latest[symbol] < now - 1

\* InfoIsDue with the same cutoff for every symbol
InfoIsDueNoJitter(latest, symbol, now) ==
    \/ symbol \notin DOMAIN latest
    \/ latest[symbol] < now - base_days

\* latest_date is None or latest_date.date() < cutoff_date
InfoIsDue(latest, symbol, now) ==
    \/ symbol \notin DOMAIN latest
    \/ latest[symbol] < now - get_ticker_info_update_interval_days(symbol)

(* -------------------------------- Init --------------------------------- *)
AllInfoDates == UNION { InitialInfoDates(s) : s \in Symbols }

Init ==
    /\ kind \in {"prices", "info"}
    /\ symbols \in SeqsUpTo(Symbols, MaxLen)
    /\ force_update \in BOOLEAN
    /\ kind = "prices" => force_update = FALSE
    /\ today = BaseDay
    /\ stock_prices \in
          [Symbols -> UNION { InitialPriceRows(s) : s \in Symbols }]
    /\ \A s \in Symbols :
          stock_prices[s] = {} \/ stock_prices[s] \in InitialPriceRows(s)
    /\ \A s \in Symbols :
          (kind # "prices" \/ s \notin Range(symbols)) => stock_prices[s] = {}
    /\ \E D \in SUBSET Range(symbols) :
          /\ kind # "info" => D = {}
          /\ force_update => D = Range(symbols)
          /\ ticker_info \in [D -> AllInfoDates]
          /\ \A s \in D : ticker_info[s] \in InitialInfoDates(s)
          /\ force_update =>
                \A s \in D : ticker_info[s] = MaxOf(InitialInfoDates(s))
    /\ pc = "start"
    /\ latest_dates = EmptyDict
    /\ symbols_to_update = <<>>
    /\ results = EmptyDict
    /\ i = 0
    /\ attempt = 0
    /\ prices_data = EmptyDict
    /\ info_data = EmptyDict
    /\ abort_processing = FALSE
    /\ ret = EmptyDict
    /\ slept = 0
    /\ requested = {}
    /\ fetched = {}
    /\ answered = {}
    /\ persist_log = EmptyDict
    /\ stock_prices0 = stock_prices
    /\ ticker_info0 = ticker_info
    /\ batches = <<>>
    /\ hash_value = 0
    /\ intervals_returned = <<>>
    /\ OnItsOwn
    /\ AppIdle

(* ---------------------------- update_tiker ----------------------------- *)
\* a count of every entry of d
CountKeys(d) == Cardinality(DOMAIN d)

\* sum(1 for success in d.values() if success)
CountTrue(d) == Cardinality({ k \in DOMAIN d : d[k] })

\* what update_tiker returns from the maps of its two calls
update_tiker(prices_success, info_success, syms) ==
    [ prices_success |-> CountTrue(prices_success),
      info_success |-> CountTrue(info_success),
      total |-> Len(syms) ]

(* ------------------------- ends of a step ------------------------------ *)
\* return res, after calls provider calls for the batch at i
Return(res, calls) ==
    /\ pc' = "done"
    /\ results' = res
    /\ ret' = res
    /\ attempt' = calls
    /\ slept' = 0
    /\ UNCHANGED i

\* the exception leaves the function: nothing is returned
Propagate ==
    /\ pc' = "raised"
    /\ UNCHANGED << results, ret, i, attempt, slept >>

\* the outer handler: results = dict.fromkeys(symbols, False); return results
OuterHandler == Return(fromkeys(symbols, FALSE), attempt)

\* NextBatch stepping over the batch that follows
NextBatchSkipping(res, batch_size, delay, calls) ==
    IF i + 2 * batch_size < Len(symbols_to_update)
    THEN /\ pc' = "fetch"
         /\ results' = res
         /\ i' = i + 2 * batch_size
         /\ attempt' = 0
         /\ slept' = delay
         /\ ret' = ret
    ELSE Return(res, calls)

\* NextBatch going through the same batch again
NextBatchStaying(res, batch_size, delay, calls) ==
    /\ pc' = "fetch"
    /\ results' = res
    /\ i' = i
    /\ attempt' = 0
    /\ slept' = delay
    /\ ret' = ret

\* the end of a batch's iteration, calls provider calls after its start:
\* sleep delay and go on with the next batch when there is one, else leave
\* the loop and return results
NextBatch(res, batch_size, delay, calls) ==
    IF i + batch_size < Len(symbols_to_update)
    THEN /\ pc' = "fetch"
         /\ results' = res
         /\ i' = i + batch_size
         /\ attempt' = 0
         /\ slept' = delay
         /\ ret' = ret
    ELSE Return(res, calls)

\* AbortResults forgetting the batches not yet processed
AbortResultsBatchOnly(res, batch_symbols, remaining) ==
    DictSetAll(res, batch_symbols, FALSE)

\* the abort after the last failed attempt: every symbol of the batch is
\* set False, and every symbol after the batch that is not yet in results
AbortResults(res, batch_symbols, remaining) ==
    DictSetMissing(DictSetAll(res, batch_symbols, FALSE), remaining, FALSE)

\* an early return reporting every symbol failed
AllFailed(syms) == fromkeys(syms, FALSE)

\* the early return when no symbol is due
AllFresh(syms) == fromkeys(syms, TRUE)

\* BatchHandler ending the run as the abort of update_tiker_info does
BatchHandlerAborting(batch_symbols, batch_size, calls) ==
    Return(DictSetAll(results, batch_symbols, FALSE), calls)

\* a batch without data (lines 171-175) and the batch handler (232-235):
\* for symbol in batch_symbols: results[symbol] = False, then the next batch
BatchHandler(batch_symbols, batch_size, calls) ==
    NextBatch(DictSetAll(results, batch_symbols, FALSE), batch_size, 0, calls)

(* --------------------- update_tiker_prices: steps ---------------------- *)
\* The read of the latest dates and the staleness filter; the early return
\* when nothing is due.
ClassifyPrices ==
    /\ pc = "start"
    /\ kind = "prices"
    /\ \E read \in {"ok", "raise"} :
         LET handler == IF read = "ok" THEN "db_read" ELSE CaughtAt(ReadChain)
             latest == get_latest_price_dates(symbols, stock_prices, read)
             due == { s \in Range(symbols) : PriceIsDue(latest, s, today) }
             fresh == [s \in Range(symbols) \ due |-> TRUE]
         IN  CASE handler = "db_read" ->
                   /\ latest_dates' = latest
                   /\ symbols_to_update' = Filter(symbols, due)
                   /\ IF symbols_to_update' = <<>>
                      THEN Return(AllFresh(symbols), attempt)
                      ELSE /\ pc' = "fetch"
                           /\ results' = fresh
                           /\ UNCHANGED << i, attempt, slept, ret >>
               [] handler = "outer" ->
                   /\ OuterHandler
                   /\ UNCHANGED << latest_dates, symbols_to_update >>
               [] OTHER ->
                   /\ Propagate
                   /\ UNCHANGED << latest_dates, symbols_to_update >>
    /\ UNCHANGED jitter_vars
    /\ UNCHANGED twice_vars
    /\ UNCHANGED app_vars
    /\ UNCHANGED batches
    /\ UNCHANGED provider_calls
    /\ UNCHANGED << kind, symbols, force_update, today, stock_prices,
                    ticker_info, prices_data, info_data, abort_processing,
                    requested, fetched, answered, persist_log, stock_prices0,
                    ticker_info0 >>

\* One call of get_stock_prices for the batch at i, and what the loop body
\* does with an empty frame.
FetchPrices ==
    /\ pc = "fetch"
    /\ kind = "prices"
    /\ LET batch_symbols == Slice(symbols_to_update, i, PriceBatchSize)
       IN  \E answer \in PriceAnswers(batch_symbols, today) :
             LET handler == IF answer.raised THEN CaughtAt(ProviderChain)
                            ELSE "provider"
             IN  /\ requested' = requested \cup Range(batch_symbols)
                 /\ fetched' = fetched \cup {i}
                 /\ batches' = IF attempt = 0
                               THEN Append(batches, batch_symbols)
                               ELSE batches
                 /\ provider_calls' = OneMoreCall(provider_calls)
                 /\ CASE handler = "provider" ->
                          /\ prices_data' = ProviderResult(answer)
                          /\ IF prices_data' = EmptyDict
                             THEN /\ BatchHandler(batch_symbols, PriceBatchSize, attempt + 1)
                                  /\ answered' = answered
                             ELSE /\ pc' = "extract"
                                  /\ attempt' = attempt + 1
                                  /\ slept' = 0
                                  /\ answered' = answered \cup {i}
                                  /\ UNCHANGED << results, i, ret >>
                      [] handler = "batch" ->
                          /\ BatchHandler(batch_symbols, PriceBatchSize, attempt + 1)
                          /\ UNCHANGED << prices_data, answered >>
                      [] handler = "outer" ->
                          /\ OuterHandler
                          /\ UNCHANGED << prices_data, answered >>
                      [] OTHER ->
                          /\ Propagate
                          /\ UNCHANGED << prices_data, answered >>
    /\ UNCHANGED jitter_vars
    /\ UNCHANGED twice_vars
    /\ UNCHANGED app_vars
    /\ UNCHANGED << kind, symbols, force_update, today, stock_prices,
                    ticker_info, latest_dates, symbols_to_update, info_data,
                    abort_processing, persist_log, stock_prices0,
                    ticker_info0 >>

RECURSIVE ExtractPricesFrom(_, _, _, _, _, _)
\* The loop `for symbol in batch_symbols` from its k-th symbol on: st holds
\* results, the table, the persistence log and esc, the handler (outside the
\* loop body) an exception went to; writes[k] is what the store does with
\* the k-th symbol's insert.
ExtractPricesFrom(batch_symbols, k, data, writes, now, st) ==
    IF k > Len(batch_symbols) \/ st.esc # "" THEN st
    ELSE
      LET symbol == batch_symbols[k]
          formatted_symbol == format_symbol(symbol)
          failed == [st EXCEPT !.results = DictSet(st.results, symbol, FALSE)]
          next ==
            IF formatted_symbol \notin DOMAIN data
            THEN \* prices_data.xs raises KeyError
                 IF CaughtAt(SymbolChain) = "symbol" THEN failed
                 ELSE [st EXCEPT !.esc = CaughtAt(SymbolChain)]
            ELSE IF ~data[formatted_symbol].cols THEN failed
            ELSE IF data[formatted_symbol].rows = {} THEN failed
            ELSE IF writes[k] = "ok" \/ CaughtAt(PersistChain) = "db_write"
                 THEN \* success = insert_stock_prices(...); results[symbol] = success
                      [st EXCEPT
                         !.results = DictSet(st.results, symbol,
                                             insert_returns(writes[k])),
                         !.table = IF writes[k] = "ok"
                                   THEN insert_stock_prices(
                                          st.table, symbol,
                                          data[formatted_symbol].rows)
                                   ELSE st.table,
                         !.log = DictSet(st.log, symbol,
                                         insert_returns(writes[k]))]
            ELSE IF CaughtAt(PersistChain) = "symbol" THEN failed
            ELSE [st EXCEPT !.esc = CaughtAt(PersistChain)]
      IN  ExtractPricesFrom(batch_symbols, k + 1, data, writes, now, next)

\* The extraction loop of the batch at i and the pacing sleep after it.
ExtractPrices ==
    /\ pc = "extract"
    /\ kind = "prices"
    /\ LET batch_symbols == Slice(symbols_to_update, i, PriceBatchSize)
       IN  \E writes \in [1..Len(batch_symbols) -> {"ok", "raise"}] :
             LET st == ExtractPricesFrom(
                         batch_symbols, 1, prices_data, writes, today,
                         [results |-> results, table |-> stock_prices,
                          log |-> persist_log, esc |-> ""])
             IN  /\ stock_prices' = st.table
                 /\ persist_log' = st.log
                 /\ CASE st.esc = "" ->
                          NextBatch(st.results, PriceBatchSize, price_batch_delay, attempt)
                      [] st.esc = "batch" ->
                          NextBatch(DictSetAll(st.results, batch_symbols, FALSE),
                                    PriceBatchSize, 0, attempt)
                      [] st.esc = "outer" -> OuterHandler
                      [] OTHER -> Propagate
    /\ UNCHANGED jitter_vars
    /\ UNCHANGED twice_vars
    /\ UNCHANGED app_vars
    /\ UNCHANGED batches
    /\ UNCHANGED provider_calls
    /\ UNCHANGED << kind, symbols, force_update, today, ticker_info,
                    latest_dates, symbols_to_update, prices_data, info_data,
                    abort_processing, requested, fetched, answered,
                    stock_prices0, ticker_info0 >>

(* ---------------------- update_tiker_info: steps ----------------------- *)
\* The read of the latest dates and the jittered staleness filter, or the
\* whole list under force_update; the early return when nothing is due.
ClassifyInfo ==
    /\ pc = "start"
    /\ kind = "info"
    /\ \E read \in {"ok", "raise"} :
         LET handler == IF read = "ok" \/ force_update THEN "db_read"
                        ELSE CaughtAt(ReadChain)
             latest == IF force_update THEN EmptyDict
                       ELSE get_latest_ticker_info_dates(symbols, ticker_info, read)
             due == { s \in Range(symbols) : InfoIsDue(latest, s, today) }
             fresh == [s \in Range(symbols) \ due |-> TRUE]
         IN  CASE handler = "db_read" ->
                   /\ latest_dates' = latest
                   /\ symbols_to_update' =
                        IF force_update THEN symbols ELSE Filter(symbols, due)
                   /\ IF ~force_update /\ symbols_to_update' = <<>>
                      THEN Return(AllFresh(symbols), attempt)
                      ELSE IF symbols_to_update' = <<>>
                      THEN Return(EmptyDict, attempt)
                      ELSE /\ pc' = "fetch"
                           /\ results' = IF force_update THEN EmptyDict ELSE fresh
                           /\ UNCHANGED << i, attempt, slept, ret >>
               [] handler = "outer" ->
                   /\ OuterHandler
                   /\ UNCHANGED << latest_dates, symbols_to_update >>
               [] OTHER ->
                   /\ Propagate
                   /\ UNCHANGED << latest_dates, symbols_to_update >>
    /\ UNCHANGED jitter_vars
    /\ UNCHANGED twice_vars
    /\ UNCHANGED app_vars
    /\ UNCHANGED batches
    /\ UNCHANGED provider_calls
    /\ UNCHANGED << kind, symbols, force_update, today, stock_prices,
                    ticker_info, prices_data, info_data, abort_processing,
                    requested, fetched, answered, persist_log, stock_prices0,
                    ticker_info0 >>

\* One call of get_stock_info in the attempt loop of the batch at i, the
\* retry sleep after a failed attempt, and the abort after the last one.
FetchInfo ==
    /\ pc = "fetch"
    /\ kind = "info"
    /\ LET batch_symbols == Slice(symbols_to_update, i, InfoBatchSize)
       IN  \E answer \in InfoAnswers(batch_symbols) :
             LET handler == IF answer.raised THEN CaughtAt(ProviderChain)
                            ELSE "provider"
             IN  /\ requested' = requested \cup Range(batch_symbols)
                 /\ fetched' = fetched \cup {i}
                 /\ batches' = IF attempt = 0
                               THEN Append(batches, batch_symbols)
                               ELSE batches
                 /\ provider_calls' = OneMoreCall(provider_calls)
                 /\ CASE handler = "provider" ->
                          /\ info_data' = ProviderResult(answer)
                          /\ IF info_data' # EmptyDict
                             THEN \* break out of the attempt loop
                                  /\ pc' = "extract"
                                  /\ attempt' = attempt + 1
                                  /\ slept' = 0
                                  /\ answered' = answered \cup {i}
                                  /\ UNCHANGED << results, i, ret, abort_processing >>
                             ELSE IF attempt + 1 < max_attempts
                             THEN \* time.sleep(retry_delay), next attempt
                                  /\ pc' = "fetch"
                                  /\ attempt' = attempt + 1
                                  /\ slept' = retry_delay
                                  /\ UNCHANGED << results, i, ret, answered,
                                                  abort_processing >>
                             ELSE \* if not info_data: ... abort_processing = True; break
                                  /\ abort_processing' = TRUE
                                  /\ Return(AbortResults(
                                              results, batch_symbols,
                                              SliceFrom(symbols_to_update,
                                                        i + InfoBatchSize)),
                                            attempt + 1)
                                  /\ answered' = answered
                      [] handler = "batch" ->
                          /\ BatchHandler(batch_symbols, InfoBatchSize, attempt + 1)
                          /\ UNCHANGED << info_data, answered, abort_processing >>
                      [] handler = "outer" ->
                          /\ OuterHandler
                          /\ UNCHANGED << info_data, answered, abort_processing >>
                      [] OTHER ->
                          /\ Propagate
                          /\ UNCHANGED << info_data, answered, abort_processing >>
    /\ UNCHANGED jitter_vars
    /\ UNCHANGED twice_vars
    /\ UNCHANGED app_vars
    /\ UNCHANGED << kind, symbols, force_update, today, stock_prices,
                    ticker_info, latest_dates, symbols_to_update, prices_data,
                    persist_log, stock_prices0, ticker_info0 >>

RECURSIVE ExtractInfoFrom(_, _, _, _, _, _)
\* The loop `for symbol in batch_symbols` from its k-th symbol on, as
\* ExtractPricesFrom.
ExtractInfoFrom(batch_symbols, k, data, writes, now, st) ==
    IF k > Len(batch_symbols) \/ st.esc # "" THEN st
    ELSE
      LET symbol == batch_symbols[k]
          formatted_symbol == format_symbol(symbol)
          failed == [st EXCEPT !.results = DictSet(st.results, symbol, FALSE)]
          next ==
            IF formatted_symbol \notin DOMAIN data THEN failed
            ELSE IF ~(data[formatted_symbol] # 0
                      /\ data[formatted_symbol] > min_info_fields) THEN failed
            ELSE IF writes[k] = "ok" \/ CaughtAt(PersistChain) = "db_write"
                 THEN \* success = insert_ticker_info(...); results[symbol] = success
                      [st EXCEPT
                         !.results = DictSet(st.results, symbol,
                                             insert_returns(writes[k])),
                         !.table = IF writes[k] = "ok"
                                   THEN insert_ticker_info(st.table, symbol, now)
                                   ELSE st.table,
                         !.log = DictSet(st.log, symbol,
                                         insert_returns(writes[k]))]
            ELSE IF CaughtAt(PersistChain) = "symbol" THEN failed
            ELSE [st EXCEPT !.esc = CaughtAt(PersistChain)]
      IN  ExtractInfoFrom(batch_symbols, k + 1, data, writes, now, next)

\* The extraction loop of the batch at i and the pacing sleep after it.
ExtractInfo ==
    /\ pc = "extract"
    /\ kind = "info"
    /\ LET batch_symbols == Slice(symbols_to_update, i, InfoBatchSize)
       IN  \E writes \in [1..Len(batch_symbols) -> {"ok", "raise"}] :
             LET st == ExtractInfoFrom(
                         batch_symbols, 1, info_data, writes, today,
                         [results |-> results, table |-> ticker_info,
                          log |-> persist_log, esc |-> ""])
             IN  /\ ticker_info' = st.table
                 /\ persist_log' = st.log
                 /\ CASE st.esc = "" ->
                          NextBatch(st.results, InfoBatchSize, info_batch_delay,
                                    attempt)
                      [] st.esc = "batch" ->
                          NextBatch(DictSetAll(st.results, batch_symbols, FALSE),
                                    InfoBatchSize, 0, attempt)
                      [] st.esc = "outer" -> OuterHandler
                      [] OTHER -> Propagate
    /\ UNCHANGED jitter_vars
    /\ UNCHANGED twice_vars
    /\ UNCHANGED app_vars
    /\ UNCHANGED batches
    /\ UNCHANGED provider_calls
    /\ UNCHANGED << kind, symbols, force_update, today, stock_prices,
                    latest_dates, symbols_to_update, prices_data, info_data,
                    abort_processing, requested, fetched, answered,
                    stock_prices0, ticker_info0 >>

(* ------------------------------- Spec ---------------------------------- *)
Next ==
    \/ ClassifyPrices
    \/ FetchPrices
    \/ ExtractPrices
    \/ ClassifyInfo
    \/ FetchInfo
    \/ ExtractInfo

Spec == Init /\ [][Next]_vars

(* ------------- get_ticker_info_update_interval_days alone -------------- *)
\* Calls of the interval computation for one symbol, whose digest is
\* hash_value, made while days pass and the symbol's row in ticker_info
\* is rewritten between the calls.
JitterInit ==
    /\ kind = "interval"
    /\ hash_value \in 0..MaxHash
    /\ intervals_returned = <<>>
    /\ symbols = <<>>
    /\ force_update = FALSE
    /\ today = BaseDay
    /\ stock_prices = [s \in Symbols |-> {}]
    /\ ticker_info = EmptyDict
    /\ pc = "start"
    /\ latest_dates = EmptyDict
    /\ symbols_to_update = <<>>
    /\ results = EmptyDict
    /\ i = 0
    /\ attempt = 0
    /\ prices_data = EmptyDict
    /\ info_data = EmptyDict
    /\ abort_processing = FALSE
    /\ ret = EmptyDict
    /\ slept = 0
    /\ requested = {}
    /\ fetched = {}
    /\ answered = {}
    /\ persist_log = EmptyDict
    /\ stock_prices0 = stock_prices
    /\ ticker_info0 = ticker_info
    /\ batches = <<>>
    /\ OnItsOwn
    /\ AppIdle

\* one call: update_interval_days = self.get_ticker_info_update_interval_days(symbol)
JitterCall ==
    /\ kind = "interval"
    /\ Len(intervals_returned) < MaxCalls
    /\ intervals_returned' = Append(intervals_returned, interval_of_hash(hash_value))
    /\ UNCHANGED << kind, symbols, force_update, today, stock_prices,
                    ticker_info, pc, latest_dates, symbols_to_update, results,
                    i, attempt, prices_data, info_data, abort_processing, ret,
                    slept, requested, fetched, answered, persist_log,
                    stock_prices0, ticker_info0, batches, hash_value >>
    /\ UNCHANGED twice_vars
    /\ UNCHANGED provider_calls
    /\ UNCHANGED app_vars

\* a day passes and the stored rows change: some symbol's row in ticker_info
\* is written with the new day
JitterDayPasses ==
    /\ kind = "interval"
    /\ today < BaseDay + MaxDays
    /\ today' = today + 1
    /\ \E s \in Symbols : ticker_info' = insert_ticker_info(ticker_info, s, today')
    /\ UNCHANGED << kind, symbols, force_update, stock_prices, pc,
                    latest_dates, symbols_to_update, results, i, attempt,
                    prices_data, info_data, abort_processing, ret, slept,
                    requested, fetched, answered, persist_log, stock_prices0,
                    ticker_info0, batches, hash_value, intervals_returned >>
    /\ UNCHANGED twice_vars
    /\ UNCHANGED provider_calls
    /\ UNCHANGED app_vars

JitterNext ==
    \/ JitterCall
    \/ JitterDayPasses

JitterSpec == JitterInit /\ [][JitterNext]_vars

(* ------------------------ vocabulary of the claims --------------------- *)
BatchSize == IF kind = "prices" THEN PriceBatchSize ELSE InfoBatchSize

\* the starts i of the batches of the due list
BatchStarts ==
    { b \in 0..(Len(symbols_to_update) - 1) : b % BatchSize = 0 }

BatchAt(b) == Slice(symbols_to_update, b, BatchSize)

\* the symbols of the batches before the one at b, and after it
EarlierThan(b) == Range(SubSeq(symbols_to_update, 1, b))
LaterThan(b) == Range(SliceFrom(symbols_to_update, b + BatchSize))

NoDup(seq) == Cardinality(Range(seq)) = Len(seq)

IsFalse(d, s) == s \in DOMAIN d /\ d[s] = FALSE
IsTrue(d, s) == s \in DOMAIN d /\ d[s] = TRUE

\* the step in which a batch has exhausted its attempts
AbortStep == ~abort_processing /\ abort_processing'

(* ------------------------------- C1 ------------------------------------ *)
\* C1 as stated: when the attempts of a Snapshot batch are exhausted, at
\* return every entity of that batch and of every later batch has outcome
\* false, no later batch was fetched, and the outcomes recorded for the
\* entities of earlier batches are unchanged - for every due list.
C1_AbortAsStated ==
    [][AbortStep =>
         /\ pc' = "done"
         /\ \A s \in Range(BatchAt(i)) \cup LaterThan(i) : IsFalse(ret', s)
         /\ \A b \in fetched' : b <= i
         /\ \A s \in EarlierThan(i) : IsTrue(results, s) <=> IsTrue(ret', s)
      ]_vars

\* C1 (amended): when the attempts of a Snapshot batch are exhausted, at
\* return every entity of that batch has outcome false; an entity of a later
\* batch has outcome false unless an earlier batch of the run recorded an
\* outcome for it, which it keeps; no later batch was fetched; the outcomes
\* recorded for entities of earlier batches are unchanged except for those
\* that are also in the failed batch. For a due list that names no entity
\* twice this is the statement as it was made.
C1_Abort ==
    [][AbortStep =>
         /\ pc' = "done"
         /\ \A s \in Range(BatchAt(i)) : IsFalse(ret', s)
         /\ \A s \in LaterThan(i) \ Range(BatchAt(i)) :
               IF s \in DOMAIN results
               THEN s \in EarlierThan(i) /\ IsTrue(ret', s) = results[s]
               ELSE IsFalse(ret', s)
         /\ \A b \in fetched' : b <= i
         /\ \A s \in EarlierThan(i) \ Range(BatchAt(i)) :
               /\ s \in DOMAIN results
               /\ IsTrue(ret', s) = results[s]
               /\ IsFalse(ret', s) = ~results[s]
         /\ NoDup(symbols_to_update) =>
               /\ \A s \in Range(BatchAt(i)) \cup LaterThan(i) : IsFalse(ret', s)
               /\ \A s \in EarlierThan(i) : IsTrue(results, s) <=> IsTrue(ret', s)
      ]_vars

\* an aborted run with a batch before and a batch after the failed one, no
\* entity named twice, and a success recorded before the abort
C1_AbortWitness ==
    /\ pc = "done"
    /\ abort_processing
    /\ i > 0
    /\ i + BatchSize < Len(symbols_to_update)
    /\ NoDup(symbols_to_update)
    /\ \E s \in EarlierThan(i) : IsTrue(ret, s)

(* ------------------------------- C2 ------------------------------------ *)
C2_AttemptsState ==
    kind = "info" =>
      /\ attempt \in 0..3
      \* the attempts end with the first non-empty result, without abort
      /\ pc = "extract" =>
            attempt \in 1..3 /\ info_data # EmptyDict /\ ~abort_processing
      \* another attempt follows a failed one, and only below 3 attempts
      /\ (pc = "fetch" /\ attempt >= 1) => info_data = EmptyDict /\ attempt < 3
      /\ (attempt >= 1 /\ info_data = EmptyDict) =>
            \/ attempt < 3 /\ pc = "fetch" /\ ~abort_processing
            \/ attempt = 3 /\ pc = "done" /\ abort_processing
      /\ abort_processing => attempt = 3 /\ info_data = EmptyDict
      \* every batch the run has left, or ended in, was called at least once
      /\ \A b \in BatchStarts : b < i => b \in fetched
      /\ (pc = "done" /\ symbols_to_update # <<>>) => i \in fetched /\ attempt >= 1

\* C2: each Snapshot batch gets at least 1 and at most 3 provider calls; a
\* call that raises or returns nothing is followed by another iff fewer than
\* 3 were made; the first non-empty result ends the attempts: after it no
\* further call is made for the batch and the run is not aborted.
C2_Attempts ==
    /\ []C2_AttemptsState
    /\ [][(kind = "info" /\ pc = "extract") =>
            /\ attempt' = attempt \/ (attempt' = 0 /\ i' # i)
            /\ fetched' = fetched
            /\ ~abort_processing'
         ]_vars

\* a batch answered on its second attempt
C2_AttemptsWitness ==
    /\ kind = "info"
    /\ pc = "extract"
    /\ attempt = 2

(* ------------------------------- C3 ------------------------------------ *)
\* a step of a Series run in which the fetch of the batch at i gave no
\* usable result
SeriesFetchFailed ==
    /\ kind = "prices"
    /\ pc = "fetch"
    /\ fetched' # fetched
    /\ i \notin answered'

C3_SeriesState ==
    kind = "prices" =>
      /\ attempt \in 0..1
      /\ ~abort_processing
      /\ \A b \in BatchStarts : b < i => b \in fetched
      /\ (pc = "done" /\ symbols_to_update # <<>>) => fetched = BatchStarts

C4_NoPropagation ==
    /\ pc # "raised"
    /\ pc = "done" =>
         /\ DOMAIN ret = Range(symbols)
         /\ \A s \in DOMAIN ret : ret[s] \in BOOLEAN
         /\ \A s \in DOMAIN persist_log :
               persist_log[s] = FALSE => IsFalse(ret, s)
         /\ (fetched # {} /\ answered = {}) =>
               \A s \in Range(symbols_to_update) : IsFalse(ret, s)

\* a finished run in which a fetch gave nothing, an insert failed and
\* another entity was stored
C4_NoPropagationWitness ==
    /\ pc = "done"
    /\ fetched \ answered # {}
    /\ \E s \in DOMAIN persist_log : persist_log[s] = FALSE
    /\ \E s \in DOMAIN persist_log : persist_log[s] = TRUE /\ IsTrue(ret, s)

(* ------------------------------- C5 ------------------------------------ *)
\* what a caller can read off update_tiker's return value about an abort
ReportsAborted(summary) ==
    "aborted" \in DOMAIN summary /\ summary["aborted"] = TRUE

\* C5 as stated: the value a Snapshot sync run returns to its caller
\* reports aborted = true exactly when some batch exhausted all its attempts
\* without a usable result.
C5_AbortReported ==
    (pc = "done" /\ kind = "info") =>
      \A prices_success \in { fromkeys(symbols, TRUE), fromkeys(symbols, FALSE) } :
         ReportsAborted(update_tiker(prices_success, ret, symbols))
           <=> abort_processing

\* an aborted run, returning a map in which every due entity is false
C5_AbortedRunWitness ==
    /\ pc = "done"
    /\ kind = "info"
    /\ abort_processing
    /\ i = 0
    /\ ret = fromkeys(symbols, FALSE)

(* ------------------------------- C6 ------------------------------------ *)
\* the payload of symbol s in the result of the last fetch is there and
\* passes the required-fields check
PayloadGood(s) ==
    IF kind = "prices"
    THEN /\ format_symbol(s) \in DOMAIN prices_data
         /\ prices_data[format_symbol(s)].cols
         /\ prices_data[format_symbol(s)].rows # {}
    ELSE /\ format_symbol(s) \in DOMAIN info_data
         /\ info_data[format_symbol(s)] > 5

C6_IsolatedState ==
    /\ abort_processing => i \notin answered
    /\ (pc = "done" /\ ~abort_processing /\ symbols_to_update # <<>>) =>
          fetched = BatchStarts

C7_TrueOnlyIfCurrent ==
    pc = "done" =>
      /\ \A s \in Range(symbols) :
            IsTrue(ret, s) =>
               \/ s \notin Range(symbols_to_update)
               \/ /\ s \in requested
                  /\ IsTrue(persist_log, s)
                  /\ IF kind = "prices"
                     THEN stock_prices[s] \in PayloadRows(today)
                     ELSE s \in DOMAIN ticker_info /\ ticker_info[s] = today
      /\ \A s \in DOMAIN persist_log : persist_log[s] = FALSE => IsFalse(ret, s)
      /\ \A s \in Range(symbols_to_update) :
            (abort_processing /\ s \notin requested) => IsFalse(ret, s)

\* an aborted run with an entity stored before the abort (true) and one
\* never requested (false)
C7_TrueOnlyIfCurrentWitness ==
    /\ pc = "done"
    /\ abort_processing
    /\ \E s \in Range(symbols_to_update) : IsTrue(persist_log, s) /\ IsTrue(ret, s)
    /\ \E s \in Range(symbols_to_update) : s \notin requested /\ IsFalse(ret, s)

(* ------------------------------- C8 ------------------------------------ *)
\* the call has classified its symbols
Classified == pc \in {"fetch", "extract", "done"}

\* symbol s was classified not due: the store read gave it a date that is
\* not older than its kind allows
NotDue(s) ==
    /\ ~force_update
    /\ s \in DOMAIN latest_dates
    /\ IF kind = "prices"
       THEN latest_dates[s] >= today - 1
       ELSE latest_dates[s] >= today - get_ticker_info_update_interval_days(s)

\* the rows of s in the kind's table are those the call began with
RecordUnchanged(s) ==
    /\ stock_prices[s] = stock_prices0[s]
    /\ s \in DOMAIN ticker_info <=> s \in DOMAIN ticker_info0
    /\ s \in DOMAIN ticker_info => ticker_info[s] = ticker_info0[s]

\* C8: an entity classified not due is in no provider request of the run,
\* no insert is called for it, its rows in the store are the same at every
\* point of the run as at its start, and its outcome is true - in results
\* all along and in the returned map - whatever happens to the batches of
\* the due entities.
C8_NotDueUntouched ==
    Classified =>
      \A s \in Range(symbols) :
         NotDue(s) =>
            /\ s \notin Range(symbols_to_update)
            /\ s \notin requested
            /\ s \notin DOMAIN persist_log
            /\ RecordUnchanged(s)
            /\ IsTrue(results, s)
            /\ pc = "done" => IsTrue(ret, s)

\* an aborted Snapshot run that had an entity not due, a due entity stored
\* and a due entity failed
C8_NotDueUntouchedWitness ==
    /\ pc = "done"
    /\ kind = "info"
    /\ abort_processing
    /\ \E s \in Range(symbols) : NotDue(s) /\ IsTrue(ret, s)
    /\ \E s \in Range(symbols_to_update) : IsTrue(ret, s)

(* ------------------------------- C9 ------------------------------------ *)
\* no input entity was classified due
NothingDue ==
    /\ pc # "start"
    /\ IF force_update THEN symbols = <<>>
       ELSE \A s \in Range(symbols) : NotDue(s)

\* C9: when no input entity is classified due the run has returned, right
\* after the classification, every input entity mapped to true, without
\* abort, without any provider call and without any insert; the tables are
\* as they were.
C9_NothingDue ==
    NothingDue =>
      /\ pc = "done"
      /\ symbols_to_update = <<>>
      /\ ret = fromkeys(symbols, TRUE)
      /\ ~abort_processing
      /\ requested = {} /\ fetched = {} /\ attempt = 0
      /\ persist_log = EmptyDict
      /\ stock_prices = stock_prices0 /\ ticker_info = ticker_info0
      /\ slept = 0

\* a run over three entities of which none was due
C9_NothingDueWitness ==
    /\ NothingDue
    /\ Len(symbols) = 3
    /\ Cardinality(Range(symbols)) >= 2
    /\ ~force_update

(* ------------------------------- C10 ----------------------------------- *)
\* C10: in a Series run an entity is classified due iff the store read gave
\* no record for it or a record dated before now minus 1 day: a record
\* dated today or yesterday is never due, one dated two or more days ago
\* is always due, a missing record is always due. The record the read
\* gives is the latest date of the entity's rows.
C10_SeriesDue ==
    (kind = "prices" /\ Classified) =>
      /\ Range(symbols_to_update) \subseteq Range(symbols)
      /\ \A s \in Range(symbols) :
            LET due == s \in Range(symbols_to_update)
            IN  /\ due <=> (s \notin DOMAIN latest_dates
                            \/ latest_dates[s] < today - 1)
                /\ s \notin DOMAIN latest_dates => due
                /\ s \in DOMAIN latest_dates =>
                      /\ latest_dates[s] \in {today, today - 1} => ~due
                      /\ latest_dates[s] <= today - 2 => due
                      /\ stock_prices0[s] # {}
                      /\ latest_dates[s] = MaxOf(stock_prices0[s])
                /\ stock_prices0[s] = {} => due

\* a classified Series run with an entity dated yesterday (not due), one
\* dated two days ago (due) and one without record (due)
C10_SeriesDueWitness ==
    /\ kind = "prices"
    /\ Classified
    /\ \E s \in DOMAIN latest_dates :
          latest_dates[s] = today - 1 /\ s \notin Range(symbols_to_update)
    /\ \E s \in DOMAIN latest_dates :
          latest_dates[s] = today - 2 /\ s \in Range(symbols_to_update)
    /\ \E s \in Range(symbols) :
          s \notin DOMAIN latest_dates /\ s \in Range(symbols_to_update)

(* ------------------------------- C11 ----------------------------------- *)
\* C11: in a Snapshot run that classifies (force_update is False) an entity
\* is classified due iff the store read gave no record for it or a record
\* dated before now minus the entity's own interval: a record dated exactly
\* now minus the interval is not due, one dated a day earlier is due, a
\* missing record is due. The record the read gives is the entity's
\* last_updated, for every entity that has a row.
C11_SnapshotDue ==
    (kind = "info" /\ ~force_update /\ Classified) =>
      /\ Range(symbols_to_update) \subseteq Range(symbols)
      /\ \A s \in Range(symbols) :
            LET due == s \in Range(symbols_to_update)
                interval == get_ticker_info_update_interval_days(s)
            IN  /\ due <=> (s \notin DOMAIN latest_dates
                            \/ latest_dates[s] < today - interval)
                /\ s \notin DOMAIN latest_dates => due
                /\ s \in DOMAIN latest_dates =>
                      /\ latest_dates[s] >= today - interval => ~due
                      /\ latest_dates[s] <= today - interval - 1 => due
                      /\ s \in DOMAIN ticker_info0
                      /\ latest_dates[s] = ticker_info0[s]
                /\ s \notin DOMAIN ticker_info0 => due

\* a classified Snapshot run with an entity dated exactly its interval ago
\* (not due), one dated a day earlier than its interval (due), and one
\* without record (due); the first two have different intervals
C11_SnapshotDueWitness ==
    /\ kind = "info"
    /\ ~force_update
    /\ Classified
    /\ \E s, u \in DOMAIN latest_dates :
          /\ latest_dates[s] = today - get_ticker_info_update_interval_days(s)
          /\ s \notin Range(symbols_to_update)
          /\ latest_dates[u] = today - get_ticker_info_update_interval_days(u) - 1
          /\ u \in Range(symbols_to_update)
          /\ latest_dates[u] > latest_dates[s]
    /\ \E s \in Range(symbols) :
          s \notin DOMAIN latest_dates /\ s \in Range(symbols_to_update)

RECURSIVE Flatten(_)
\* the concatenation of a sequence of sequences
Flatten(seqs) ==
    IF seqs = <<>> THEN <<>> ELSE seqs[1] \o Flatten(Tail(seqs))

\* the batches the loop forms from the due list, in the order of the loop
FormedBatches ==
    [k \in 1..Cardinality(BatchStarts) |-> BatchAt((k - 1) * BatchSize)]

\* C13: the batches formed from the due list, concatenated in the order
\* they are processed, are the due list exactly; every batch is non-empty
\* and has at most batch_size entities. The batches whose processing has
\* begun are the first of the formed ones, in order, and a run that ends
\* without abort has processed them all.
C13_Batches ==
    Classified =>
      LET formed == FormedBatches
          begun == Flatten(batches)
      IN  /\ Flatten(formed) = symbols_to_update
          /\ \A k \in 1..Len(formed) :
                /\ formed[k] # <<>>
                /\ Len(formed[k]) <= BatchSize
                /\ k < Len(formed) => Len(formed[k]) = BatchSize
          /\ Len(batches) <= Len(formed)
          /\ batches = SubSeq(formed, 1, Len(batches))
          /\ begun = SubSeq(symbols_to_update, 1, Len(begun))
          /\ \A k \in 1..Len(batches) :
                batches[k] # <<>> /\ Len(batches[k]) <= BatchSize
          /\ (pc = "done" /\ ~abort_processing) => begun = symbols_to_update

\* a finished run over a due list of three entries, an entity twice among
\* them, cut into more than one batch, the last one shorter than the first
C13_BatchesWitness ==
    /\ pc = "done"
    /\ kind = "prices"
    /\ Len(symbols_to_update) = 3
    /\ ~NoDup(symbols_to_update)
    /\ Len(batches) = 2
    /\ Len(batches[2]) < Len(batches[1])
    /\ Flatten(batches) = symbols_to_update

(* ------------------------------- C14 ----------------------------------- *)
\* entity s has a last-refresh record in the store
HasRecord(s) ==
    IF kind = "prices" THEN stock_prices0[s] # {} ELSE s \in DOMAIN ticker_info0

\* the read of the last-refresh data was made and failed for entity s: the
\* store holds a record of s and the read returned none
ReadFailedFor(s) ==
    /\ Classified
    /\ ~force_update
    /\ s \in Range(symbols)
    /\ HasRecord(s)
    /\ s \notin DOMAIN latest_dates

\* the entity was fetched in this run and its insert returned success
FetchedAndStored(s) == s \in requested /\ IsTrue(persist_log, s)

\* C14 as stated: an entity whose read failed is classified due and is
\* attempted in that run; it is never reported true without a fetch, and
\* the other entities are processed.
C14_ReadFailAsStated ==
    \A s \in Range(symbols) :
       ReadFailedFor(s) =>
          /\ s \in Range(symbols_to_update)
          /\ pc = "done" =>
                /\ s \in requested
                /\ IsTrue(ret, s) => FetchedAndStored(s)
                /\ DOMAIN ret = Range(symbols)

\* C14 (amended): an entity whose read failed is classified due; it is
\* attempted in that run unless the run is aborted before its batch, and it
\* is then reported false; it is never reported true without a fetch and a
\* successful insert; the failed read does not stop the other entities:
\* every input entity gets an outcome and, unless the run is aborted, every
\* due entity is requested.
C14_ReadFailOpen ==
    \A s \in Range(symbols) :
       ReadFailedFor(s) =>
          /\ s \in Range(symbols_to_update)
          /\ pc # "raised"
          /\ pc = "done" =>
                /\ s \in requested \/ (abort_processing /\ IsFalse(ret, s))
                /\ IsTrue(ret, s) => FetchedAndStored(s)
                /\ DOMAIN ret = Range(symbols)
                /\ ~abort_processing =>
                      Range(symbols_to_update) \subseteq requested
                /\ kind = "prices" => s \in requested

\* a finished run whose read failed for an entity with a record of today:
\* the entity was fetched and stored, another entity of the run failed
C14_ReadFailOpenWitness ==
    /\ pc = "done"
    /\ kind = "prices"
    /\ \E s \in Range(symbols) :
          /\ ReadFailedFor(s)
          /\ stock_prices0[s] = {today}
          /\ FetchedAndStored(s)
          /\ IsTrue(ret, s)
    /\ \E u \in Range(symbols) : IsFalse(ret, u)

(* ------------------------------- C15 ----------------------------------- *)
\* a step that ends the processing of the batch at i and goes on, without
\* abort, to the next batch
BatchFinishes ==
    /\ pc \in {"fetch", "extract"}
    /\ pc' = "fetch"
    /\ i' = i + BatchSize
    /\ ~abort_processing'

\* C15 as stated: whenever a batch finishes without abort and a later batch
\* exists, a pacing delay (2 s for Series, 10 s for Snapshot) lies between
\* the last provider call of the batch and the first of the next, whether
\* the batch succeeded or contained only failures.
C15_Pacing ==
    [][BatchFinishes =>
         slept' = IF kind = "prices" THEN 2 ELSE 10
      ]_vars

\* a Series run about to fetch its second batch with no sleep since the
\* provider call of the first, every entity of which failed
C15_UnpacedWitness ==
    /\ kind = "prices"
    /\ pc = "fetch"
    /\ i = PriceBatchSize
    /\ attempt = 0
    /\ slept = 0
    /\ 0 \in fetched \ answered
    /\ \A s \in Range(BatchAt(0)) : IsFalse(results, s)


(* ------------------------------- C16 ----------------------------------- *)
\* results after a step, told from the state before it, the due list, the
\* provider's response to the step's call and what the store's inserts of
\* the step returned - and from nothing else
OutcomesAfterStep ==
    LET batch == Range(BatchAt(i))
        rest == Range(SliceFrom(symbols_to_update, i))
        data == IF kind = "prices" THEN prices_data' ELSE info_data'
    IN  CASE pc = "start" ->
               [s \in Range(symbols) \ Range(symbols_to_update') |-> TRUE]
          [] pc = "fetch" /\ data # EmptyDict -> results
          [] pc = "fetch" /\ data = EmptyDict /\ kind = "prices" ->
               [s \in DOMAIN results \cup batch |->
                   IF s \in batch THEN FALSE ELSE results[s]]
          [] pc = "fetch" /\ data = EmptyDict /\ kind = "info"
               /\ attempt + 1 < max_attempts -> results
          [] pc = "fetch" /\ data = EmptyDict /\ kind = "info"
               /\ attempt + 1 >= max_attempts ->
               [s \in DOMAIN results \cup rest |->
                   IF s \in DOMAIN results /\ s \notin batch
                   THEN results[s] ELSE FALSE]
          [] OTHER ->
               [s \in DOMAIN results \cup batch |->
                   IF s \in batch
                   THEN PayloadGood(s) /\ IsTrue(persist_log', s)
                   ELSE results[s]]

\* every batch before a batch the provider was called for was called for
\* too, and each of its entities has an outcome
EarlierBatchesResolved ==
    Classified =>
      \A b \in fetched : \A b2 \in BatchStarts :
         b2 < b => b2 \in fetched /\ Range(BatchAt(b2)) \subseteq DOMAIN results

\* a step makes at most one provider call, for the batch at i, which is no
\* earlier batch than any the provider was called for before
OneCallInOrder ==
    fetched' # fetched =>
       /\ fetched' = fetched \cup {i}
       /\ \A b \in fetched : b <= i
       /\ requested' = requested \cup Range(BatchAt(i))

\* C16: batches are processed one at a time in input order - the provider
\* is called for a batch only when every entity of every earlier batch has
\* an outcome, a step makes one provider call at most and never for an
\* earlier batch than before - and the result map is a function of the
\* input list, the store and the responses: after every step results is
\* what the state before the step, the provider's response and the returns
\* of the store's inserts determine.
C16_InOrder ==
    /\ [] EarlierBatchesResolved
    /\ [][OneCallInOrder]_vars
    /\ [][pc' # "raised" => results' = OutcomesAfterStep]_vars

\* a Snapshot run that ended after its third batch, without abort, one
\* batch having been retried, with both outcomes in the result map
C16_InOrderWitness ==
    /\ pc = "done"
    /\ kind = "info"
    /\ ~abort_processing
    /\ Len(batches) = 3
    /\ fetched = {0, InfoBatchSize, 2 * InfoBatchSize}
    /\ \E s \in DOMAIN ret : ret[s] = TRUE
    /\ \E s \in DOMAIN ret : ret[s] = FALSE


(* ------------------------------- C17 ----------------------------------- *)
\* the call has ended: a later call starts from this store
RunEnded == pc \in {"done", "raised"}

\* a later call of the same function at the date now, without
\* force_update, over a list holding s, finds s due when its read of the
\* latest dates does as read says
LaterRunDueAt(s, read, now) ==
    IF kind = "prices"
    THEN PriceIsDue(get_latest_price_dates(symbols, stock_prices, read),
                    s, now)
    ELSE InfoIsDue(get_latest_ticker_info_dates(symbols, ticker_info, read),
                   s, now)

\* the same at the date of this call
LaterRunDue(s, read) == LaterRunDueAt(s, read, today)

\* C17 as stated: after an entity's payload was fetched and persisted
\* successfully in a run, a later run with the same now classifies the
\* entity not due, for Series and for Snapshot.
C17_FreshAfterPersist ==
    RunEnded =>
      \A s \in Range(symbols) : \A read \in {"ok", "raise"} :
         FetchedAndStored(s) => ~LaterRunDue(s, read)

\* C17, amended: after an entity's payload was fetched and persisted
\* successfully in a run, a later run with the same now whose read of the
\* latest dates succeeds classifies the entity not due for Snapshot, and
\* for Series when the newest row persisted is dated the day before now or
\* later; a Series whose newest persisted row is older is due again, and so
\* is every entity when the read fails.
C17_FreshAfterPersistIfCurrent ==
    RunEnded =>
      \A s \in Range(symbols) :
         FetchedAndStored(s) =>
            /\ LaterRunDue(s, "raise")
            /\ kind = "info" =>
                  /\ ticker_info[s] = today
                  /\ ~LaterRunDue(s, "ok")
            /\ kind = "prices" =>
                  /\ stock_prices[s] \in PayloadRows(today)
                  /\ LaterRunDue(s, "ok") <=>
                        MaxOf(stock_prices[s]) < today - 1

\* a Series run has ended with two entities persisted successfully that
\* were due: one with a newest row of today, fresh for a later run, one
\* with a newest row three days old, due again
C17_FreshAfterPersistWitness ==
    /\ pc = "done"
    /\ kind = "prices"
    /\ \E s, t \in Range(symbols_to_update) :
          /\ FetchedAndStored(s)
          /\ FetchedAndStored(t)
          /\ MaxOf(stock_prices[s]) = today
          /\ ~LaterRunDue(s, "ok")
          /\ MaxOf(stock_prices[t]) = today - 3
          /\ LaterRunDue(t, "ok")


(* ------------------------------- C19 ----------------------------------- *)
\* the dates a next run may start at
LaterDays == today..(today + MaxDays)

\* how often s occurs in seq
Occurrences(seq, s) == Cardinality({ k \in 1..Len(seq) : seq[k] = s })

\* C19 as stated: an entity that was classified due and ends the run with
\* outcome false is classified due again by the next run, started at the
\* same or a later time.
C19_DueAgain ==
    (pc = "done" /\ ~force_update) =>
      \A s \in Range(symbols_to_update) :
         IsFalse(ret, s) => \A now \in LaterDays : LaterRunDueAt(s, "ok", now)

\* C19, amended: an entity that was classified due from what the store
\* holds of it (the read did not fail for it), occurs once in the due list
\* and ends the run with outcome false is classified due again by the next
\* run, started at the same or a later time.
C19_DueAgainOnce ==
    (pc = "done" /\ ~force_update) =>
      \A s \in Range(symbols_to_update) :
         (/\ IsFalse(ret, s)
          /\ ~ReadFailedFor(s)
          /\ Occurrences(symbols_to_update, s) = 1) =>
            \A now \in LaterDays : \A read \in {"ok", "raise"} :
               LaterRunDueAt(s, read, now)

\* a Snapshot run that aborted in its second batch: the entity of the first
\* batch ended false on an insert that failed, the entity of the second on
\* the abort, the entity of the third was not attempted; each had a record
\* in the store that was read, and is due for the next run
C19_DueAgainWitness ==
    /\ pc = "done"
    /\ kind = "info"
    /\ ~force_update
    /\ abort_processing
    /\ Len(symbols_to_update) = 3
    /\ NoDup(symbols_to_update)
    /\ fetched = {0, InfoBatchSize}
    /\ IsFalse(persist_log, symbols_to_update[1])
    /\ \A s \in Range(symbols_to_update) :
          /\ s \in DOMAIN latest_dates
          /\ IsFalse(ret, s)
          /\ LaterRunDueAt(s, "ok", today)


(* ------------------------------- C20 ----------------------------------- *)
\* the extraction loop of a Series batch runs in this step
SeriesExtraction == kind = "prices" /\ pc = "extract"

\* insert_stock_prices was called for s in this step and its last call
\* returned True
Replaced(s) ==
    /\ s \in Range(BatchAt(i))
    /\ PayloadGood(s)
    /\ IsTrue(persist_log', s)

\* C20: after a successful insert_stock_prices(e, p) the rows stored for e
\* are exactly the rows of p, whatever was stored for e before; the rows of
\* every entity for which no insert was called are unchanged; and another
\* insert_stock_prices(e, p) with the same p leaves the table as it is.
C20_ReplaceSeries ==
    [][SeriesExtraction =>
         \A s \in Symbols :
            /\ Replaced(s) =>
                  LET p == prices_data[format_symbol(s)].rows
                  IN  /\ stock_prices'[s] = p
                      /\ insert_stock_prices(stock_prices', s, p) = stock_prices'
            /\ (s \notin Range(BatchAt(i)) \/ ~PayloadGood(s)) =>
                  stock_prices'[s] = stock_prices[s]]_vars

\* a Series run has ended after a batch in which an entity that had rows
\* was replaced by a payload with none of these rows, while another entity
\* of the list keeps the rows it had
C20_ReplaceSeriesWitness ==
    /\ pc = "done"
    /\ kind = "prices"
    /\ \E s \in Range(BatchAt(i)) : \E t \in Range(symbols) :
          /\ t # s
          /\ PayloadGood(s)
          /\ IsTrue(persist_log, s)
          /\ stock_prices0[s] # {}
          /\ stock_prices[s] = prices_data[format_symbol(s)].rows
          /\ stock_prices[s] \cap stock_prices0[s] = {}
          /\ stock_prices0[t] # {}
          /\ stock_prices[t] = stock_prices0[t]


(* ----------------------- two calls in succession ----------------------- *)
\* update_tiker_prices or update_tiker_info called twice with the same list
\* on the same day. The provider holds the same for a symbol whenever it is
\* asked; the store's read and each symbol's insert succeed or fail in each
\* call as the environment says.
AllFormatted == { format_symbol(s) : s \in Symbols }

\* the sets of symbols whose insert the store refuses in a call
Refusals(syms) == { {} } \cup { {s} : s \in Range(syms) }

\* The provider holds rows for some of the symbols (Series), or a dict
\* with too few or with enough entries for each (Snapshot), or is down.
\* The store's read fails or not in each call, and the store refuses the
\* insert of at most one symbol, in either call or in both.
Environments(k, syms, now) ==
    { e \in
        [provider_down : IF k = "prices" THEN {FALSE} ELSE BOOLEAN,
         provider_data : IF k = "prices"
                         THEN UNION { [D -> { [cols |-> TRUE, rows |-> r] :
                                                r \in PayloadRows(now) }] :
                                        D \in SUBSET FormattedSet(syms) }
                         ELSE [AllFormatted ->
                                 {min_info_fields, min_info_fields + 1}],
         store_reads : [1..2 -> {"ok", "raise"}],
         rejected : [1..2 -> Refusals(syms)]] :
        Cardinality(e.rejected[1] \cup e.rejected[2]) <= 1 }

\* what the provider returns for a batch
ProvidedTo(batch_symbols) ==
    IF environment.provider_down THEN EmptyDict
    ELSE [f \in FormattedSet(batch_symbols) \cap DOMAIN environment.provider_data
            |-> environment.provider_data[f]]

\* what the store does with the insert of each symbol of a batch
WritesOf(batch_symbols) ==
    [k \in 1..Len(batch_symbols) |->
        IF batch_symbols[k] \in environment.rejected[run_no]
        THEN "raise" ELSE "ok"]

TwiceInit ==
    /\ kind \in {"prices", "info"}
    /\ symbols \in SeqsUpTo(Symbols, MaxLen)
    /\ NoDup(symbols)
    /\ force_update \in BOOLEAN
    /\ kind = "prices" => force_update = FALSE
    /\ today = BaseDay
    /\ stock_prices \in
          [Symbols -> UNION { InitialPriceRows(s) : s \in Symbols }]
    /\ \A s \in Symbols :
          stock_prices[s] = {} \/ stock_prices[s] \in InitialPriceRows(s)
    /\ \A s \in Symbols :
          (kind # "prices" \/ s \notin Range(symbols)) => stock_prices[s] = {}
    /\ \E D \in SUBSET Range(symbols) :
          /\ kind # "info" => D = {}
          /\ force_update => D = Range(symbols)
          /\ ticker_info \in [D -> AllInfoDates]
          /\ \A s \in D : ticker_info[s] \in InitialInfoDates(s)
          /\ force_update =>
                \A s \in D : ticker_info[s] = MaxOf(InitialInfoDates(s))
    /\ pc = "start"
    /\ latest_dates = EmptyDict
    /\ symbols_to_update = <<>>
    /\ results = EmptyDict
    /\ i = 0
    /\ attempt = 0
    /\ prices_data = EmptyDict
    /\ info_data = EmptyDict
    /\ abort_processing = FALSE
    /\ ret = EmptyDict
    /\ slept = 0
    /\ requested = {}
    /\ fetched = {}
    /\ answered = {}
    /\ persist_log = EmptyDict
    /\ stock_prices0 = stock_prices
    /\ ticker_info0 = ticker_info
    /\ batches = <<>>
    /\ hash_value = 0
    /\ intervals_returned = <<>>
    /\ run_no = 1
    /\ environment \in Environments(kind, symbols, today)
    /\ store_after_first = << >>
    /\ provider_calls = NotCounted
    /\ AppIdle

TwiceClassifyPrices ==
    /\ run_no \in {1, 2}
    /\ ClassifyPrices
    /\ latest_dates' = get_latest_price_dates(
                          symbols, stock_prices, environment.store_reads[run_no])

TwiceFetchPrices ==
    /\ run_no \in {1, 2}
    /\ FetchPrices
    /\ prices_data' = ProvidedTo(Slice(symbols_to_update, i, PriceBatchSize))

TwiceExtractPrices ==
    /\ run_no \in {1, 2}
    /\ ExtractPrices
    /\ LET batch_symbols == Slice(symbols_to_update, i, PriceBatchSize)
           st == ExtractPricesFrom(
                   batch_symbols, 1, prices_data, WritesOf(batch_symbols), today,
                   [results |-> results, table |-> stock_prices,
                    log |-> persist_log, esc |-> ""])
       IN  stock_prices' = st.table /\ persist_log' = st.log

TwiceClassifyInfo ==
    /\ run_no \in {1, 2}
    /\ ClassifyInfo
    /\ latest_dates' =
          IF force_update THEN EmptyDict
          ELSE get_latest_ticker_info_dates(
                  symbols, ticker_info, environment.store_reads[run_no])

TwiceFetchInfo ==
    /\ run_no \in {1, 2}
    /\ FetchInfo
    /\ info_data' = ProvidedTo(Slice(symbols_to_update, i, InfoBatchSize))

TwiceExtractInfo ==
    /\ run_no \in {1, 2}
    /\ ExtractInfo
    /\ LET batch_symbols == Slice(symbols_to_update, i, InfoBatchSize)
           st == ExtractInfoFrom(
                   batch_symbols, 1, info_data, WritesOf(batch_symbols), today,
                   [results |-> results, table |-> ticker_info,
                    log |-> persist_log, esc |-> ""])
       IN  ticker_info' = st.table /\ persist_log' = st.log

\* the first call has returned; the second call begins, with the store as
\* the first left it
SecondCall ==
    /\ run_no = 1
    /\ pc = "done"
    /\ run_no' = 2
    /\ store_after_first' = [prices |-> stock_prices, info |-> ticker_info]
    /\ pc' = "start"
    /\ latest_dates' = EmptyDict
    /\ symbols_to_update' = <<>>
    /\ results' = EmptyDict
    /\ i' = 0
    /\ attempt' = 0
    /\ prices_data' = EmptyDict
    /\ info_data' = EmptyDict
    /\ abort_processing' = FALSE
    /\ ret' = EmptyDict
    /\ slept' = 0
    /\ requested' = {}
    /\ fetched' = {}
    /\ answered' = {}
    /\ persist_log' = EmptyDict
    /\ stock_prices0' = stock_prices
    /\ ticker_info0' = ticker_info
    /\ batches' = <<>>
    /\ UNCHANGED << kind, symbols, force_update, today, stock_prices,
                    ticker_info, environment >>
    /\ UNCHANGED jitter_vars
    /\ UNCHANGED provider_calls
    /\ UNCHANGED app_vars

TwiceNext ==
    \/ TwiceClassifyPrices
    \/ TwiceFetchPrices
    \/ TwiceExtractPrices
    \/ TwiceClassifyInfo
    \/ TwiceFetchInfo
    \/ TwiceExtractInfo
    \/ SecondCall

TwiceSpec == TwiceInit /\ [][TwiceNext]_vars

(* ------------------------------- C18 ----------------------------------- *)
\* the second of the two calls has returned
BothReturned == run_no = 2 /\ pc = "done"

\* the store answered the second call as it answered the first
StoreBehavesAlike ==
    /\ environment.store_reads[1] = environment.store_reads[2]
    /\ environment.rejected[1] = environment.rejected[2]

\* C18 as stated: two runs in succession over the same list, on the same
\* day, with a provider that returns the same data both times: after the
\* second run the store is as it was after the first.
C18_TwiceSameStore ==
    BothReturned =>
       /\ stock_prices = store_after_first.prices
       /\ ticker_info = store_after_first.info

\* C18, amended: two runs in succession over the same list, on the same
\* day, with a provider that returns the same data both times and a store
\* whose read and whose inserts succeed or fail in the second run as in the
\* first: after the second run the store is as it was after the first.
C18_TwiceSameStoreAlike ==
    (BothReturned /\ StoreBehavesAlike) =>
       /\ stock_prices = store_after_first.prices
       /\ ticker_info = store_after_first.info

\* two Series runs have returned, the store behaving alike in both: the
\* first changed the store, one entity's insert was refused in both, and
\* the second fetched an entity again whose persisted rows are three days
\* old
C18_TwiceSameStoreWitness ==
    /\ BothReturned
    /\ StoreBehavesAlike
    /\ kind = "prices"
    /\ environment.rejected[1] # {}
    /\ store_after_first.prices # [s \in Symbols |-> {}]
    /\ \E s \in Range(symbols_to_update) :
          /\ IsTrue(ret, s)
          /\ stock_prices[s] = {today - 3}
          /\ stock_prices0[s] = {today - 3}
    /\ \E s \in Range(symbols_to_update) :
          /\ IsFalse(persist_log, s)
          /\ s \in environment.rejected[2]


(* ------------------------------- C21 ----------------------------------- *)
\* sum(1 for success in d.values() if not success)
CountFalse(d) == Cardinality({ k \in DOMAIN d : ~d[k] })

\* the maps the other call of update_tiker may have returned
OtherMaps == { fromkeys(symbols, TRUE), fromkeys(symbols, FALSE) }

\* what update_tiker returns when this call is one of its two calls and
\* other is the map of the other one
SummaryWith(other) ==
    IF kind = "prices" THEN update_tiker(ret, other, symbols)
    ELSE update_tiker(other, ret, symbols)

\* the success count of this call's kind in a summary
SucceededIn(summary) ==
    IF kind = "prices" THEN summary.prices_success ELSE summary.info_success

\* the due entities of the run, those that ended true and those that ended false
DueTrue == { s \in Range(symbols_to_update) : IsTrue(ret, s) }
DueFalse == { s \in Range(symbols_to_update) : IsFalse(ret, s) }

\* the entities skipped as fresh
Skipped == Range(symbols) \ Range(symbols_to_update)

\* StockDataService.update_stock_data: what it returns for one kind, from
\* the list, the due list and the map collect_* returned for the due list
update_stock_data(syms, to_update, collected) ==
    [ updates |-> collected,
      symbols_checked |-> Len(syms),
      symbols_updated |-> Len(to_update) ]

NoExit == 0 - 1

\* what update_stock_data returns: the maps collect_stock_prices and
\* collect_ticker_info returned for the two due lists, and the counts
ServiceResults(syms, price_due, price_results, ticker_due, ticker_results) ==
    [ price_updates |-> price_results,
      ticker_updates |-> ticker_results,
      price_symbols_checked |-> Len(syms),
      ticker_symbols_checked |-> Len(syms),
      price_symbols_updated |-> Len(price_due),
      ticker_symbols_updated |-> Len(ticker_due) ]

\* the results update_stock_data can return for a list: each kind has a
\* due list, a sublist of syms, and an outcome for each entity of it
PossibleServiceResults(syms) ==
    { ServiceResults(syms, Filter(syms, DOMAIN pr), pr, Filter(syms, DOMAIN tr), tr) :
        pr \in UNION { [D -> BOOLEAN] : D \in SUBSET Range(syms) },
        tr \in UNION { [D -> BOOLEAN] : D \in SUBSET Range(syms) } }

\* run_stock_data_update, lines 86-100: {} only when every attempt of both
\* kinds failed and something was attempted
run_stock_data_update(syms, res) ==
    LET price_success == CountTrue(res.price_updates)
        ticker_success == CountTrue(res.ticker_updates)
    IN  IF /\ Len(syms) > 0
           /\ price_success = 0
           /\ ticker_success = 0
           /\ ~(DOMAIN res.price_updates = {} /\ DOMAIN res.ticker_updates = {})
        THEN EmptyDict
        ELSE res

JobAt(p) == job.pc = p

JobInit ==
    /\ job \in [ pc : {"main"}, given : BOOLEAN, targets : {<<>>},
                 results : {EmptyDict}, stock_results : {EmptyDict},
                 synced : {FALSE}, exit_status : {NoExit} ]
    /\ kind = "job"
    /\ hash_value = 0
    /\ intervals_returned = <<>>
    /\ symbols = <<>>
    /\ force_update = FALSE
    /\ today = BaseDay
    /\ stock_prices = [s \in Symbols |-> {}]
    /\ ticker_info = EmptyDict
    /\ pc = "start"
    /\ latest_dates = EmptyDict
    /\ symbols_to_update = <<>>
    /\ results = EmptyDict
    /\ i = 0
    /\ attempt = 0
    /\ prices_data = EmptyDict
    /\ info_data = EmptyDict
    /\ abort_processing = FALSE
    /\ ret = EmptyDict
    /\ slept = 0
    /\ requested = {}
    /\ fetched = {}
    /\ answered = {}
    /\ persist_log = EmptyDict
    /\ stock_prices0 = stock_prices
    /\ ticker_info0 = ticker_info
    /\ batches = <<>>
    /\ OnItsOwn
    /\ portfolio = << >>
    /\ orm = << >>
    /\ analysis = << >>

JobUnchanged ==
    /\ UNCHANGED collector_vars
    /\ UNCHANGED << portfolio, orm, analysis >>

\* main, lines 184-208 and 210-212: without --markets and --symbols
\* sys.exit(1); BatchRunner() may raise, which main's handler turns into
\* sys.exit(1); else exec begins
JobMain ==
    /\ JobAt("main")
    /\ \E constructed \in BOOLEAN :
         job' = IF ~job.given \/ ~constructed
                THEN [job EXCEPT !.pc = "exited", !.exit_status = 1]
                ELSE [job EXCEPT !.pc = "filter"]
    /\ JobUnchanged

\* exec, lines 39-43: run_company_filtering gives the targets, [] when the
\* filter raised; without targets exec returns and main ends
JobFilter ==
    /\ JobAt("filter")
    /\ \E targets \in { t \in SeqsUpTo(Symbols, MaxLen) : NoDup(t) } :
         job' = IF targets = <<>>
                THEN [job EXCEPT !.pc = "exited", !.exit_status = 0]
                ELSE [job EXCEPT !.pc = "update", !.targets = targets]
    /\ JobUnchanged

\* exec, lines 46-48: run_stock_data_update, which returns {} when
\* update_stock_data raised
JobUpdate ==
    /\ JobAt("update")
    /\ \/ \E res \in PossibleServiceResults(job.targets) :
            job' = [job EXCEPT !.pc = "analysis",
                               !.results = res,
                               !.synced = TRUE,
                               !.stock_results =
                                   run_stock_data_update(job.targets, res)]
       \/ job' = [job EXCEPT !.pc = "analysis", !.stock_results = EmptyDict]
    /\ JobUnchanged

\* exec, lines 51-55: run_technical_analysis catches what it raises; exec
\* returns, main returns and the process ends with status 0
JobAnalysis ==
    /\ JobAt("analysis")
    /\ job' = [job EXCEPT !.pc = "exited", !.exit_status = 0]
    /\ JobUnchanged

JobNext ==
    \/ JobMain
    \/ JobFilter
    \/ JobUpdate
    \/ JobAnalysis

JobSpec == JobInit /\ [][JobNext]_vars

(* ------------------------------- C22 ----------------------------------- *)
\* the sync run the job wrapped had a failed entity
SyncFailed ==
    CountFalse(job.results.price_updates)
      + CountFalse(job.results.ticker_updates) > 0

\* C22: the process of the batch job exits with success status if and
\* only if the sync run it wrapped had no failed entity; a run in which an
\* attempted entity failed yields a non-success status.
C22_ExitReflectsRun ==
    (JobAt("exited") /\ job.synced) =>
       (job.exit_status = 0 <=> ~SyncFailed)

\* the job has exited with status 0 after a sync run in which every
\* attempted entity of both kinds failed, run_stock_data_update having
\* returned {}
C22_ExitZeroAllFailedWitness ==
    /\ JobAt("exited")
    /\ job.synced
    /\ job.exit_status = 0
    /\ DOMAIN job.stock_results = {}
    /\ DOMAIN job.results.price_updates = Range(job.targets)
    /\ Len(job.targets) = 3
    /\ CountTrue(job.results.price_updates) = 0
    /\ CountTrue(job.results.ticker_updates) = 0
    /\ CountFalse(job.results.ticker_updates) > 0


(* ----------------------- a run followed to its end --------------------- *)
\* One call of update_tiker_prices or update_tiker_info, over a list
\* without repetition, whose provider calls are counted; every call to the
\* provider and to the store returns or raises, so the call always takes
\* its next step.
CountedInit ==
    /\ kind \in {"prices", "info"}
    /\ symbols \in SeqsUpTo(Symbols, MaxLen)
    /\ NoDup(symbols)
    /\ force_update \in BOOLEAN
    /\ kind = "prices" => force_update = FALSE
    /\ today = BaseDay
    /\ stock_prices \in
          [Symbols -> UNION { InitialPriceRows(s) : s \in Symbols }]
    /\ \A s \in Symbols :
          stock_prices[s] = {} \/ stock_prices[s] \in InitialPriceRows(s)
    /\ \A s \in Symbols :
          (kind # "prices" \/ s \notin Range(symbols)) => stock_prices[s] = {}
    /\ \E D \in SUBSET Range(symbols) :
          /\ kind # "info" => D = {}
          /\ force_update => D = Range(symbols)
          /\ ticker_info \in [D -> AllInfoDates]
          /\ \A s \in D : ticker_info[s] \in InitialInfoDates(s)
          /\ force_update =>
                \A s \in D : ticker_info[s] = MaxOf(InitialInfoDates(s))
    /\ pc = "start"
    /\ latest_dates = EmptyDict
    /\ symbols_to_update = <<>>
    /\ results = EmptyDict
    /\ i = 0
    /\ attempt = 0
    /\ prices_data = EmptyDict
    /\ info_data = EmptyDict
    /\ abort_processing = FALSE
    /\ ret = EmptyDict
    /\ slept = 0
    /\ requested = {}
    /\ fetched = {}
    /\ answered = {}
    /\ persist_log = EmptyDict
    /\ stock_prices0 = stock_prices
    /\ ticker_info0 = ticker_info
    /\ batches = <<>>
    /\ hash_value = 0
    /\ intervals_returned = <<>>
    /\ run_no = 0
    /\ environment = NoEnvironment
    /\ store_after_first = << >>
    /\ provider_calls = 0
    /\ AppIdle

CountedSpec == CountedInit /\ [][Next]_vars /\ WF_vars(Next)

(* ------------------------------- C23 ----------------------------------- *)
\* ceil(n / s)
CeilDiv(n, s) == (n + s - 1) \div s

\* the most provider calls a run over the due list makes
MostCalls == 3 * CeilDiv(Len(symbols_to_update), BatchSize)

\* the run has returned after its last batch, or right after the batch
\* that exhausted its attempts, which is the last one the provider was
\* called for
ReturnedWhereItShould ==
    pc = "done" =>
       \/ symbols_to_update = <<>> /\ provider_calls = 0
       \/ ~abort_processing /\ fetched = BatchStarts
                            /\ i = Len(symbols_to_update) - Len(BatchAt(i))
       \/ /\ abort_processing
          /\ attempt = max_attempts
          /\ i \in fetched
          /\ \A b \in fetched : b <= i

\* C23: every run terminates when each provider and store call returns or
\* raises: for a due list of n entities and batch size s it makes at most
\* 3 * ceil(n / s) provider calls and then returns, either after its last
\* batch or immediately after the first batch that exhausts its attempts.
C23_Terminates ==
    /\ [](provider_calls <= MostCalls)
    /\ [] ReturnedWhereItShould
    /\ <>(pc = "done")

\* a Snapshot run over three batches has returned after the most calls
\* three batches can take without an abort
C23_TerminatesWitness ==
    /\ pc = "done"
    /\ kind = "info"
    /\ ~abort_processing
    /\ Cardinality(BatchStarts) = 3
    /\ provider_calls = MostCalls

(* ======================= the portfolio ledger ========================== *)
\* PositionService.buy_stock / sell_stock and the deposit and withdraw
\* handlers of the portfolios router, for the requests the owner of one
\* existing portfolio sends. Money is counted in hundredths, the scale of
\* the DECIMAL(_, 2) columns.

\* the most requests sent to the portfolio
MaxRequests == 3

PortfolioSymbols == { "7203", "6758" }

\* BuyRequest / SellRequest: quantity gt=0, price None or gt=0
Quantities == { 1, 2 }
NoPrice == 0
Prices == { 100, 200 }

\* DepositRequest / WithdrawalRequest: amount gt=0
Amounts == { 100, 200 }

\* PortfolioCreateRequest: initial_capital gt=0
Capitals == { 100, 300 }

\* the latest close of table stock_prices: "6758" has no price row
latest_close == [ s \in PortfolioSymbols |-> IF s = "7203" THEN 200 ELSE NoPrice ]

HTTP_200_OK == 200
HTTP_400_BAD_REQUEST == 400
HTTP_404_NOT_FOUND == 404

NoRequest == [ op |-> "none" ]

\* the requests of the four handlers
Requests ==
    [ op : {"buy", "sell"}, symbol : PortfolioSymbols, quantity : Quantities,
      price : Prices \cup {NoPrice} ]
      \cup [ op : {"deposit", "withdraw"}, amount : Amounts ]

\* the rows of one kind in the transaction history, summed
RECURSIVE TotalAmount(_, _)
TotalAmount(transactions, type) ==
    IF transactions = << >> THEN 0
    ELSE (IF Head(transactions).transaction_type = type
             THEN Head(transactions).total_amount ELSE 0)
           + TotalAmount(Tail(transactions), type)

\* the shares of a symbol in the rows of one kind, summed
RECURSIVE TotalQuantity(_, _, _)
TotalQuantity(transactions, type, symbol) ==
    IF transactions = << >> THEN 0
    ELSE (IF /\ Head(transactions).transaction_type = type
             /\ Head(transactions).symbol = symbol
             THEN Head(transactions).quantity ELSE 0)
           + TotalQuantity(Tail(transactions), type, symbol)

\* calculate_portfolio_value, lines 233-240: cash_balance
cash_balance(initial_capital, transactions) ==
    initial_capital
      - TotalAmount(transactions, "buy")
      + TotalAmount(transactions, "sell")
      + TotalAmount(transactions, "deposit")
      - TotalAmount(transactions, "withdrawal")

\* a quotient stored in a DECIMAL(_, 2) column: the nearest hundredth, and
\* either neighbour when the float quotient lies half way
Stored(num, den) ==
    IF (2 * num) % (2 * den) = den
       THEN { num \div den, (num \div den) + 1 }
       ELSE { (2 * num + den) \div (2 * den) }

\* sell_stock's check treating only a missing position as short
InsufficientSharesNoPosition(positions, symbol, quantity) ==
    symbol \notin DOMAIN positions

\* sell_stock, line 124: not position or position.quantity < quantity
InsufficientShares(positions, symbol, quantity) ==
    \/ symbol \notin DOMAIN positions
    \/ positions[symbol].quantity < quantity

\* sell_stock's update without the delete
AfterSellKeeping(positions, symbol, quantity) ==
    [positions EXCEPT ![symbol].quantity = @ - quantity]

\* sell_stock, lines 137-139: position.quantity -= quantity and the delete
\* of a position that reached 0
AfterSell(positions, symbol, quantity) ==
    IF positions[symbol].quantity - quantity = 0
       THEN [ s \in DOMAIN positions \ {symbol} |-> positions[s] ]
       ELSE [positions EXCEPT ![symbol].quantity = @ - quantity]

\* buy_stock, lines 59-73: the weighted average of an existing position, or
\* a new position at the price of the buy
AfterBuy(positions, symbol, quantity, price) ==
    IF symbol \in DOMAIN positions
       THEN { [positions EXCEPT ![symbol] =
                  [ quantity |-> positions[symbol].quantity + quantity,
                    average_price |-> avg ]] :
              avg \in Stored(positions[symbol].average_price
                                * positions[symbol].quantity
                                + price * quantity,
                             positions[symbol].quantity + quantity) }
       ELSE { [ s \in DOMAIN positions \cup {symbol} |->
                  IF s = symbol
                     THEN [ quantity |-> quantity, average_price |-> price ]
                     ELSE positions[s] ] }

\* lines 49-50 and 130-131 with _get_latest_price, lines 171-184: the
\* price of the request, else the latest close, else none
PriceFor(symbol, price) ==
    IF price # NoPrice THEN price ELSE latest_close[symbol]

Transaction(type, symbol, quantity, price, total_amount) ==
    [ transaction_type |-> type, symbol |-> symbol, quantity |-> quantity,
      price |-> price, total_amount |-> total_amount ]

Outcome(status, positions, transactions) ==
    [ status |-> status, positions |-> positions,
      transactions |-> transactions ]

\* PositionService.buy_stock: the outcomes of one call
buy_stock(positions, transactions, symbol, quantity, price) ==
    IF PriceFor(symbol, price) = NoPrice
       THEN { Outcome(HTTP_404_NOT_FOUND, positions, transactions) }
       ELSE { Outcome(HTTP_200_OK, after,
                      Append(transactions,
                             Transaction("buy", symbol, quantity,
                                         PriceFor(symbol, price),
                                         PriceFor(symbol, price) * quantity))) :
              after \in AfterBuy(positions, symbol, quantity,
                                 PriceFor(symbol, price)) }

\* PositionService.sell_stock: the outcomes of one call
sell_stock(positions, transactions, symbol, quantity, price) ==
    IF InsufficientShares(positions, symbol, quantity)
       THEN { Outcome(HTTP_400_BAD_REQUEST, positions, transactions) }
       ELSE IF PriceFor(symbol, price) = NoPrice
       THEN { Outcome(HTTP_404_NOT_FOUND, positions, transactions) }
       ELSE { Outcome(HTTP_200_OK, AfterSell(positions, symbol, quantity),
                      Append(transactions,
                             Transaction("sell", symbol, quantity,
                                         PriceFor(symbol, price),
                                         PriceFor(symbol, price) * quantity))) }

\* deposit_cash, lines 464-499: a deposit row of the amount
deposit_cash(positions, transactions, amount) ==
    { Outcome(HTTP_200_OK, positions,
              Append(transactions,
                     Transaction("deposit", "", 0, amount, amount))) }

\* withdraw_cash's check rejecting a withdrawal of the whole balance too
InsufficientCashOrAll(balance, amount) == balance <= amount

\* withdraw_cash, line 513: calc["cash_balance"] < payload.amount
InsufficientCash(balance, amount) == balance < amount

\* withdraw_cash, lines 503-550
withdraw_cash(initial_capital, positions, transactions, amount) ==
    IF InsufficientCash(cash_balance(initial_capital, transactions), amount)
       THEN { Outcome(HTTP_400_BAD_REQUEST, positions, transactions) }
       ELSE { Outcome(HTTP_200_OK, positions,
                      Append(transactions,
                             Transaction("withdrawal", "", 0, amount,
                                         amount))) }

\* the portfolio right after create_portfolio, before any request
PortfolioInit ==
    /\ portfolio \in [ initial_capital : Capitals,
                       positions : { << >> },
                       transactions : { << >> },
                       request : { NoRequest },
                       status : { 0 },
                       before : { [ positions |-> << >>,
                                    transactions |-> << >> ] },
                       requests : { 0 } ]
    /\ kind = "portfolio"
    /\ hash_value = 0
    /\ intervals_returned = <<>>
    /\ symbols = <<>>
    /\ force_update = FALSE
    /\ today = BaseDay
    /\ stock_prices = [s \in Symbols |-> {}]
    /\ ticker_info = EmptyDict
    /\ pc = "start"
    /\ latest_dates = EmptyDict
    /\ symbols_to_update = <<>>
    /\ results = EmptyDict
    /\ i = 0
    /\ attempt = 0
    /\ prices_data = EmptyDict
    /\ info_data = EmptyDict
    /\ abort_processing = FALSE
    /\ ret = EmptyDict
    /\ slept = 0
    /\ requested = {}
    /\ fetched = {}
    /\ answered = {}
    /\ persist_log = EmptyDict
    /\ stock_prices0 = stock_prices
    /\ ticker_info0 = ticker_info
    /\ batches = <<>>
    /\ OnItsOwn
    /\ job = << >>
    /\ orm = << >>
    /\ analysis = << >>

PortfolioUnchanged ==
    /\ UNCHANGED collector_vars
    /\ UNCHANGED << job, orm, analysis >>

\* one request answered: the handler's outcome is committed as a whole
Answered(request, outcomes) ==
    /\ portfolio.requests < MaxRequests
    /\ \E out \in outcomes :
         portfolio' = [ initial_capital |-> portfolio.initial_capital,
                        positions |-> out.positions,
                        transactions |-> out.transactions,
                        request |-> request,
                        status |-> out.status,
                        before |-> [ positions |-> portfolio.positions,
                                     transactions |-> portfolio.transactions ],
                        requests |-> portfolio.requests + 1 ]
    /\ PortfolioUnchanged

\* POST /{portfolio_id}/positions/buy
Buy ==
    \E r \in Requests :
       /\ r.op = "buy"
       /\ Answered(r, buy_stock(portfolio.positions, portfolio.transactions,
                                r.symbol, r.quantity, r.price))

\* POST /{portfolio_id}/positions/sell
Sell ==
    \E r \in Requests :
       /\ r.op = "sell"
       /\ Answered(r, sell_stock(portfolio.positions, portfolio.transactions,
                                 r.symbol, r.quantity, r.price))

\* POST /{portfolio_id}/deposit
Deposit ==
    \E r \in Requests :
       /\ r.op = "deposit"
       /\ Answered(r, deposit_cash(portfolio.positions,
                                   portfolio.transactions, r.amount))

\* POST /{portfolio_id}/withdraw
Withdraw ==
    \E r \in Requests :
       /\ r.op = "withdraw"
       /\ Answered(r, withdraw_cash(portfolio.initial_capital,
                                    portfolio.positions,
                                    portfolio.transactions, r.amount))

PortfolioNext ==
    \/ Buy
    \/ Sell
    \/ Deposit
    \/ Withdraw

PortfolioSpec == PortfolioInit /\ [][PortfolioNext]_vars

(* ------------------------------- C24 ----------------------------------- *)
Bought(symbol) == TotalQuantity(portfolio.transactions, "buy", symbol)
Sold(symbol) == TotalQuantity(portfolio.transactions, "sell", symbol)

\* the portfolio held fewer shares of the symbol than the last request
\* asked to sell, or none
SellOfTooMany ==
    /\ portfolio.request.op = "sell"
    /\ \/ portfolio.request.symbol \notin DOMAIN portfolio.before.positions
       \/ portfolio.before.positions[portfolio.request.symbol].quantity
            < portfolio.request.quantity

LeftUnchanged ==
    /\ portfolio.positions = portfolio.before.positions
    /\ portfolio.transactions = portfolio.before.transactions

\* C24: sell_stock is rejected (HTTP 400) whenever the portfolio holds no
\* position in the symbol or holds fewer shares than the requested
\* quantity, and a rejected sell leaves the position and the transaction
\* history unchanged; hence after any sequence of buys and sells the shares
\* sold of a symbol never exceed the shares bought.
C24_SellRejected ==
    /\ SellOfTooMany => portfolio.status = HTTP_400_BAD_REQUEST
    /\ (portfolio.request.op = "sell" /\ portfolio.status # HTTP_200_OK)
          => LeftUnchanged
    /\ \A s \in PortfolioSymbols : Sold(s) <= Bought(s)

\* a sell of two shares was rejected while one share was held
C24_SellRejectedWitness ==
    /\ SellOfTooMany
    /\ portfolio.request.symbol \in DOMAIN portfolio.before.positions
    /\ portfolio.status = HTTP_400_BAD_REQUEST
    /\ Bought(portfolio.request.symbol) = 1

(* ------------------------------- C25 ----------------------------------- *)
\* the last request was accepted
Accepted(op) ==
    /\ portfolio.request.op = op
    /\ portfolio.status = HTTP_200_OK

\* the row the last accepted request added to the history
LastTransaction == portfolio.transactions[Len(portfolio.transactions)]

\* the last request sold every share held of its symbol
SoldOut ==
    /\ Accepted("sell")
    /\ portfolio.before.positions[portfolio.request.symbol].quantity
         = portfolio.request.quantity

\* the last request bought a symbol of which no position was stored
BoughtAnew ==
    /\ Accepted("buy")
    /\ portfolio.request.symbol \notin DOMAIN portfolio.before.positions

\* C25: after any sequence of accepted buy and sell operations, every
\* stored position has quantity > 0 equal to shares bought minus shares
\* sold for that portfolio and symbol; a sell that brings the quantity to 0
\* deletes the position, and a later buy creates a fresh position whose
\* average price is that buy's price.
C25_PositionsArePositive ==
    /\ \A s \in DOMAIN portfolio.positions :
         /\ portfolio.positions[s].quantity > 0
         /\ portfolio.positions[s].quantity = Bought(s) - Sold(s)
    /\ SoldOut => portfolio.request.symbol \notin DOMAIN portfolio.positions
    /\ BoughtAnew =>
         /\ portfolio.request.symbol \in DOMAIN portfolio.positions
         /\ portfolio.positions[portfolio.request.symbol]
              = [ quantity |-> portfolio.request.quantity,
                  average_price |-> LastTransaction.price ]

\* a symbol bought at 100 and sold out is bought again at 200: the position
\* is a new one at 200
C25_PositionsArePositiveWitness ==
    /\ BoughtAnew
    /\ Sold(portfolio.request.symbol) > 0
    /\ Bought(portfolio.request.symbol) = Sold(portfolio.request.symbol)
                                            + portfolio.request.quantity
    /\ portfolio.transactions[1].price = 100
    /\ LastTransaction.price = 200
    /\ portfolio.positions[portfolio.request.symbol].average_price = 200

(* ------------------------------- C26 ----------------------------------- *)
\* the cash balance before and after the last request
CashBefore ==
    cash_balance(portfolio.initial_capital, portfolio.before.transactions)

CashNow == cash_balance(portfolio.initial_capital, portfolio.transactions)

C26_WithdrawalRejectedWitness ==
    /\ portfolio.request.op = "withdraw"
    /\ portfolio.request.amount > CashBefore
    /\ CashBefore > 0
    /\ portfolio.status = HTTP_400_BAD_REQUEST

(* ------------------------------- C29 ----------------------------------- *)
\* C29: after any sequence of accepted deposit, withdraw, buy and sell
\* operations on a portfolio created with a positive initial capital, the
\* portfolio's cash balance (initial capital - total buys + total sells +
\* total deposits - total withdrawals) is never negative.
C29_CashNeverNegative == CashNow >= 0

\* an accepted buy cost more than the cash the portfolio had
C29_BoughtBeyondCashWitness ==
    /\ Accepted("buy")
    /\ CashBefore > 0
    /\ LastTransaction.total_amount > CashBefore
    /\ CashNow < 0

(* ========================== the AI analyses ============================ *)
\* the variables of update_tiker_prices and update_tiker_info while another
\* program is looked at
CollectorIdle ==
    /\ hash_value = 0
    /\ intervals_returned = <<>>
    /\ symbols = <<>>
    /\ force_update = FALSE
    /\ today = BaseDay
    /\ stock_prices = [s \in Symbols |-> {}]
    /\ ticker_info = EmptyDict
    /\ pc = "start"
    /\ latest_dates = EmptyDict
    /\ symbols_to_update = <<>>
    /\ results = EmptyDict
    /\ i = 0
    /\ attempt = 0
    /\ prices_data = EmptyDict
    /\ info_data = EmptyDict
    /\ abort_processing = FALSE
    /\ ret = EmptyDict
    /\ slept = 0
    /\ requested = {}
    /\ fetched = {}
    /\ answered = {}
    /\ persist_log = EmptyDict
    /\ stock_prices0 = stock_prices
    /\ ticker_info0 = ticker_info
    /\ batches = <<>>
    /\ OnItsOwn

\* the most analyses asked for
MaxAnalyses == 3

AnalysisSymbols == { "7203", "6758" }
Users == { 1, 2 }

\* the parameters of analyze_stock_async after self, lines 179-181
analyze_stock_async_params == << "symbol", "analysis_id", "timeout_seconds" >>

\* the arguments start_analysis passes, line 95:
\* analyze_stock_async(symbol, current_user.id, analysis_id, timeout_seconds=60)
start_analysis_call(symbol, user_id, analysis_id) ==
    [ positional |-> << symbol, user_id, analysis_id >>,
      keywords |-> { "timeout_seconds" } ]

\* the call of a function: TypeError when there are more positional
\* arguments than parameters or a keyword names a parameter a positional
\* argument has filled
RaisesTypeError(params, call) ==
    \/ Len(call.positional) > Len(params)
    \/ \E k \in 1..Len(call.positional) : params[k] \in call.keywords

\* the statuses a record ends in
TerminalStatuses == { "completed", "failed" }

\* create_analysis_record, lines 243-251: the row committed as pending
NewRecord(symbol, user_id) ==
    [ symbol |-> symbol, user_id |-> user_id, status |-> "pending" ]

AnalysisInit ==
    /\ analysis = [ records |-> << >>, pc |-> "idle", response |-> 0,
                    tasks |-> {} ]
    /\ kind = "analysis"
    /\ CollectorIdle
    /\ job = << >>
    /\ portfolio = << >>
    /\ orm = << >>

AnalysisUnchanged ==
    /\ UNCHANGED collector_vars
    /\ UNCHANGED << job, portfolio, orm >>

\* start_analysis, lines 85-90: the record is created and committed
CreateRecord ==
    /\ analysis.pc = "idle"
    /\ Len(analysis.records) < MaxAnalyses
    /\ \E symbol \in AnalysisSymbols, user_id \in Users :
         analysis' = [analysis EXCEPT
                        !.records = Append(@, NewRecord(symbol, user_id)),
                        !.pc = "created",
                        !.response = 0]
    /\ AnalysisUnchanged

\* start_analysis, lines 93-112: the arguments of add_task are evaluated,
\* the call of analyze_stock_async among them; an exception of the call
\* leaves the handler (500), else the task is added and the record returned
ScheduleTask ==
    /\ analysis.pc = "created"
    /\ LET analysis_id == Len(analysis.records)
           record == analysis.records[analysis_id]
           call == start_analysis_call(record.symbol, record.user_id,
                                       analysis_id)
       IN  analysis' =
             IF RaisesTypeError(analyze_stock_async_params, call)
                THEN [analysis EXCEPT !.pc = "idle", !.response = 500]
                ELSE [analysis EXCEPT !.pc = "idle", !.response = 200,
                                      !.tasks = @ \cup {call.positional[2]}]
    /\ AnalysisUnchanged

AnalysisNext ==
    \/ CreateRecord
    \/ ScheduleTask

\* every request is answered
AnalysisSpec == AnalysisInit /\ [][AnalysisNext]_vars /\ WF_vars(AnalysisNext)

(* ------------------------------- C30 ----------------------------------- *)
StatusOf(k) ==
    IF k <= Len(analysis.records) THEN analysis.records[k].status
    ELSE "none"

\* C30: every AI analysis record created by start_analysis with status
\* pending eventually reaches exactly one terminal status, completed or
\* failed (on success, error, or the 60-second timeout), and once a record
\* is completed or failed its status never changes again.
C30_EveryAnalysisEnds ==
    /\ \A k \in 1..MaxAnalyses :
          [](StatusOf(k) = "pending" => <>(StatusOf(k) \in TerminalStatuses))
    /\ [][\A k \in 1..MaxAnalyses :
            StatusOf(k) \in TerminalStatuses => StatusOf(k)' = StatusOf(k)]_vars

\* start_analysis has answered 500 for every analysis asked for: the
\* records are pending and no task was added
C30_PendingForeverWitness ==
    /\ analysis.pc = "idle"
    /\ analysis.response = 500
    /\ Len(analysis.records) = MaxAnalyses
    /\ \A k \in 1..MaxAnalyses : StatusOf(k) = "pending"
    /\ analysis.tasks = {}


(* ----------- analyze_stock_async called as its signature says ---------- *)
\* the records of the analyses whose tasks run: all pending, one task each
TaskInit ==
    /\ \E n \in 1..MaxAnalyses :
         /\ analysis \in [ records : [1..n -> { NewRecord(s, u) :
                                                  s \in AnalysisSymbols,
                                                  u \in Users }],
                           pc : {"idle"}, response : {200},
                           tasks : {1..n} ]
    /\ kind = "analysis"
    /\ CollectorIdle
    /\ job = << >>
    /\ portfolio = << >>
    /\ orm = << >>

\* the task of record k ends with the status written to the record
TaskEnds(k, status) ==
    /\ k \in analysis.tasks
    /\ analysis' = [analysis EXCEPT !.records[k].status = status,
                                    !.tasks = @ \ {k}]
    /\ AnalysisUnchanged

\* _perform_analysis, lines 198-229, returns within the timeout
PerformCompletes == \E k \in analysis.tasks : TaskEnds(k, "completed")

\* _perform_analysis raises; lines 195-196 and _record_analysis_failure
PerformRaises == \E k \in analysis.tasks : TaskEnds(k, "failed")

\* wait_for cancels _perform_analysis after timeout_seconds; lines 193-194
\* and _record_analysis_failure
PerformTimesOut == \E k \in analysis.tasks : TaskEnds(k, "failed")

TaskNext ==
    \/ PerformCompletes
    \/ PerformRaises
    \/ PerformTimesOut

\* every task that was started ends
TaskSpec == TaskInit /\ [][TaskNext]_vars /\ WF_vars(TaskNext)

\* the records of the tasks that ended are in a terminal status, those of
\* the running ones pending
TaskStatuses ==
    \A k \in 1..Len(analysis.records) :
       IF k \in analysis.tasks THEN StatusOf(k) = "pending"
       ELSE StatusOf(k) \in TerminalStatuses


(* ------------------------------- C27 ----------------------------------- *)
\* C27: when update_tiker_prices or update_tiker_info returns, the key set
\* of the result map equals the set of input entities: every input entity,
\* whether skipped as fresh, attempted, or left unattempted by an abort,
\* has exactly one boolean outcome, and no entity outside the input appears.
C27_ResultKeys ==
    pc = "done" =>
       /\ DOMAIN ret = Range(symbols)
       /\ \A s \in DOMAIN ret : ret[s] \in BOOLEAN


\* a Snapshot run over three entities has returned after an abort: the
\* first was skipped as fresh, the second was in the batch that exhausted
\* its attempts, the third was never asked for
C27_ResultKeysWitness ==
    /\ pc = "done"
    /\ kind = "info"
    /\ abort_processing
    /\ Len(symbols) = 3
    /\ Len(symbols_to_update) = 2
    /\ symbols[1] \notin Range(symbols_to_update)
    /\ ret[symbols[1]] = TRUE
    /\ fetched = {0}
    /\ ret[symbols_to_update[1]] = FALSE
    /\ ret[symbols_to_update[2]] = FALSE
    /\ Cardinality(DOMAIN ret) = 3


(* ============ insert_stock_prices of the SQLAlchemy manager ============ *)
\* DatabaseManager.insert_stock_prices of app/shared/database, lines
\* 355-382, for one symbol: the rows of the symbol are the set of their
\* dates.
Days == { 1, 2, 3 }

OrmInit ==
    /\ orm \in [ rows : SUBSET Days, session_rows : { {} },
                 price_data : { {} }, before : { {} }, pc : { "idle" },
                 returned : { "none" } ]
    /\ kind = "orm"
    /\ CollectorIdle
    /\ job = << >>
    /\ portfolio = << >>
    /\ analysis = << >>

OrmUnchanged ==
    /\ UNCHANGED collector_vars
    /\ UNCHANGED << job, portfolio, analysis >>

\* lines 377-380: the handler of every exception of the body: the session
\* is rolled back, which undoes what it has not committed, and the call
\* returns False
RollbackAndReturnFalse ==
    orm' = [orm EXCEPT !.session_rows = orm.rows, !.pc = "returned",
                       !.returned = "False"]

\* the call insert_stock_prices(symbol, price_data), lines 355-357
OrmCall ==
    /\ orm.pc = "idle"
    /\ \E price_data \in SUBSET Days :
         orm' = [orm EXCEPT !.price_data = price_data, !.before = orm.rows,
                            !.session_rows = orm.rows, !.pc = "delete"]
    /\ OrmUnchanged

\* line 360: the delete of the symbol's rows in the session, or its
\* exception
OrmDelete ==
    /\ orm.pc = "delete"
    /\ \/ orm' = [orm EXCEPT !.session_rows = {}, !.pc = "commit"]
       \/ RollbackAndReturnFalse
    /\ OrmUnchanged

\* line 361: session.commit() makes the delete durable, or raises
OrmCommit ==
    /\ orm.pc = "commit"
    /\ \/ orm' = [orm EXCEPT !.rows = orm.session_rows, !.pc = "to_sql"]
       \/ RollbackAndReturnFalse
    /\ OrmUnchanged

\* lines 363-375: the frame is prepared and to_sql appends it through the
\* engine in a transaction of its own; an exception of either leaves the
\* table as the commit of line 361 made it
OrmToSql ==
    /\ orm.pc = "to_sql"
    /\ \/ orm' = [orm EXCEPT !.rows = orm.rows \cup orm.price_data,
                             !.session_rows = orm.rows \cup orm.price_data,
                             !.pc = "returned", !.returned = "True"]
       \/ RollbackAndReturnFalse
    /\ OrmUnchanged

OrmNext ==
    \/ OrmCall
    \/ OrmDelete
    \/ OrmCommit
    \/ OrmToSql

OrmSpec == OrmInit /\ [][OrmNext]_vars

(* ------------------------------- C28 ----------------------------------- *)
\* C28: in the SQLAlchemy DatabaseManager, if insert_stock_prices(symbol,
\* data) returns False, the rows stored for that symbol are the same as
\* before the call: the delete of the old series and the insert of the new
\* one take effect together or not at all.
C28_FalseLeavesRows ==
    (orm.pc = "returned" /\ orm.returned = "False") => orm.rows = orm.before

\* the call returned False after to_sql raised: the rows the symbol had
\* are gone and none of the new series is stored
C28_RowsLostWitness ==
    /\ orm.pc = "returned"
    /\ orm.returned = "False"
    /\ orm.before # {}
    /\ orm.price_data # {}
    /\ orm.rows = {}

=============================================================================
